---- MODULE Spec2Model ----
(***************************************************************************)
(* Heimdall SSO: the request-authentication middleware chain, the token    *)
(* service, the user directory (PostgresAdapter over the users table) and  *)
(* the HTTP routes that bind them.  A request is handled to completion in  *)
(* one step and `last` records what the step did; where requests overlap,  *)
(* `pending` holds them as processes that step at their directory calls,   *)
(* and `arrivals` counts the requests a client has sent to the router.     *)
(* `client` is the session a browser page holds (HeimdallProvider).        *)
(***************************************************************************)
EXTENDS Integers, Sequences, FiniteSets, TLC

VARIABLES users, nextId, now, issued, last, requests, pending, arrivals,
          client

vars == <<users, nextId, now, issued, last, requests, pending, arrivals,
         client>>

(***************************************************************************)
(* Bounds of the model.                                                    *)
(***************************************************************************)
MaxUsers == 2
MaxTime == 2
MaxTokens == 1
ExpiresIn == 1

Roles == {"user", "admin", "super_admin"}

(***************************************************************************)
(* Strings.  A string that travels in a request (a header part, a cookie,  *)
(* a query value) is a record: a plain word, a signed token (a string      *)
(* without spaces whose content is its claims), a non-string value, or     *)
(* undefined.  An email is a sequence of characters.                       *)
(***************************************************************************)
Str(s) ==
    [kind |-> "str", text |-> s, userId |-> 0, email |-> <<>>, role |-> "",
     iat |-> 0, exp |-> 0, sig |-> ""]

Undefined == [Str("") EXCEPT !.kind = "undefined"]

NonString == [Str("") EXCEPT !.kind = "array"]

Truthy(v) == v.kind # "undefined" /\ v # Str("")

IsString(v) == v.kind \in {"str", "jwt"}

UpperChars == <<"A", "B", "X", "Y">>

LowerChars == <<"a", "b", "x", "y">>

ToLowerChar(c) ==
    IF \E k \in 1..Len(UpperChars) : UpperChars[k] = c
    THEN LowerChars[CHOOSE k \in 1..Len(UpperChars) : UpperChars[k] = c]
    ELSE c

ToLowerCase(s) == [i \in 1..Len(s) |-> ToLowerChar(s[i])]

\* String.prototype.split(sep) for a one-character separator: the pieces
\* between the separators, in order (never an empty list).
RECURSIVE Split(_, _)
Split(s, sep) ==
    IF \A i \in 1..Len(s) : s[i] # sep
    THEN <<s>>
    ELSE LET k == CHOOSE i \in 1..Len(s) :
                      s[i] = sep /\ \A j \in 1..(i - 1) : s[j] # sep
         IN <<SubSeq(s, 1, k - 1)>> \o Split(SubSeq(s, k + 1, Len(s)), sep)

(***************************************************************************)
(* Configuration: options.accessControl.                                   *)
(***************************************************************************)
AllowedDomains == {<<"x">>}

AllowedEmails == {}

Emails == {<<"a", "@", "x">>, <<"b", "@", "x">>, <<"b", "@", "y">>}

Names == {"Ann"}

\* OAuthService.checkAccessControl over the two lists of the options.
CheckAccessControlIn(allowedDomains, allowedEmails, email) ==
    IF allowedDomains = {} /\ allowedEmails = {}
    THEN TRUE
    ELSE LET emailLower == ToLowerCase(email)
             parts == Split(emailLower, "@")
         IN \/ emailLower \in allowedEmails
            \/ Len(parts) >= 2 /\ parts[2] \in allowedDomains

\* OAuthService.checkAccessControl of the configured service
CheckAccessControl(email) ==
    CheckAccessControlIn(AllowedDomains, AllowedEmails, email)

(***************************************************************************)
(* OAuth exchange client (MicrosoftOAuthProvider).  The provider is the    *)
(* environment: its token endpoint answers an authorization code with an   *)
(* access token or with an error status, and its profile endpoint answers  *)
(* an access token with the profile of the account that granted it.        *)
(***************************************************************************)
Codes == {"c1", "c2", "bad"}

\* The provider's accounts by the grant: mail may be null (<<>>).
ProviderProfile(grant) ==
    IF grant = "c1"
    THEN [mail |-> <<"a", "@", "x">>, userPrincipalName |-> <<"a", "@", "x">>,
          displayName |-> "Ann"]
    ELSE [mail |-> <<>>, userPrincipalName |-> <<"b", "@", "x">>,
          displayName |-> "Bob"]

\* MicrosoftOAuthProvider.exchangeCodeForTokens: a response that is not ok
\* throws; otherwise the token response (its access token names the grant).
ExchangeCodeForTokens(code, reachable) ==
    IF ~reachable \/ code = "bad"
    THEN [err |-> "Token exchange failed", tokens |-> {}]
    ELSE [err |-> "", tokens |-> {[access_token |-> code]}]

\* MicrosoftOAuthProvider.getUserInfo: a response that is not ok throws;
\* otherwise email = data.mail || data.userPrincipalName, name =
\* data.displayName.
GetUserInfo(accessToken, reachable) ==
    LET data == ProviderProfile(accessToken)
    IN IF ~reachable \/ accessToken = "bad"
       THEN [err |-> "Failed to fetch user info from Microsoft Graph",
             info |-> {}]
       ELSE [err |-> "",
             info |-> {[email |-> IF data.mail # <<>> THEN data.mail
                                  ELSE data.userPrincipalName,
                        name |-> data.displayName, provider |-> "microsoft"]}]

(***************************************************************************)
(* Token service (JWTService over jsonwebtoken).                           *)
(***************************************************************************)
\* The expiresIn option of the service: a number (seconds), a string with a
\* unit, or not set.
Seconds(n) == [kind |-> "number", n |-> n, span |-> ""]

Span(str) == [kind |-> "string", n |-> 0, span |-> str]

NotSet == [kind |-> "undefined", n |-> 0, span |-> ""]

\* JWTService constructor: expiresIn = '7d' when none is given.
JWTServiceExpiresIn(option) ==
    IF option.kind = "undefined" THEN Span("7d") ELSE option

\* jwt.sign's reading of expiresIn, in seconds: a number as it is, a string
\* by its unit.
Timespan(expiresIn) ==
    IF expiresIn.kind = "number" THEN expiresIn.n
    ELSE IF expiresIn.span = "7d" THEN 7 * 24 * 60 * 60
    ELSE IF expiresIn.span = "30d" THEN 30 * 24 * 60 * 60
    ELSE 60 * 60

GenerateTokenWithRefreshExpiry(user, t, expiresIn) ==
    [kind |-> "jwt", text |-> "", userId |-> user.id, email |-> user.email,
     role |-> user.role, iat |-> t, exp |-> t + Timespan(Span("30d")),
     sig |-> "good"]

\* JWTService.generateToken of a service built with expiresIn: claims
\* userId, email, role of the row; jwt.sign stamps iat and exp = iat + the
\* timespan.
GenerateTokenWith(user, t, expiresIn) ==
    [kind |-> "jwt", text |-> "", userId |-> user.id, email |-> user.email,
     role |-> user.role, iat |-> t, exp |-> t + Timespan(expiresIn),
     sig |-> "good"]

\* JWTService.generateToken of the configured service
GenerateToken(user, t) == GenerateTokenWith(user, t, Seconds(ExpiresIn))

\* The same token with a signature that does not verify.
Tamper(tok) == [tok EXCEPT !.sig = "bad"]

\* The claims jwt.verify decodes from a token.
Decoded(tok) ==
    [userId |-> tok.userId, email |-> tok.email, role |-> tok.role,
     iat |-> tok.iat, exp |-> tok.exp]

VerifyTokenLateExpiry(tok, t, libFault) ==
    IF libFault THEN [err |-> "other", payload |-> Decoded(tok)]
    ELSE IF tok.kind # "jwt" \/ tok.sig # "good"
    THEN [err |-> "Invalid token", payload |-> Decoded(tok)]
    ELSE IF t > tok.exp
    THEN [err |-> "Token has expired", payload |-> Decoded(tok)]
    ELSE [err |-> "", payload |-> Decoded(tok)]

\* JWTService.verifyToken: jwt.verify checks the structure, then the
\* signature, then exp (clockTimestamp >= exp is expired); any error that is
\* not a jsonwebtoken error is rethrown as it is (libFault).
VerifyToken(tok, t, libFault) ==
    IF libFault THEN [err |-> "other", payload |-> Decoded(tok)]
    ELSE IF tok.kind # "jwt" \/ tok.sig # "good"
    THEN [err |-> "Invalid token", payload |-> Decoded(tok)]
    ELSE IF t >= tok.exp
    THEN [err |-> "Token has expired", payload |-> Decoded(tok)]
    ELSE [err |-> "", payload |-> Decoded(tok)]

\* The string a sequence of words and spaces spells.
RECURSIVE Join(_)
Join(piece) == IF piece = <<>> THEN "" ELSE piece[1] \o Join(Tail(piece))

\* authHeader.split(' ') of a header given as the sequence of its words and
\* spaces; {} is an absent header, which has no parts.
HeaderParts(raw) ==
    IF raw = {} THEN <<>>
    ELSE LET pieces == Split(CHOOSE h \in raw : TRUE, " ")
         IN [i \in 1..Len(pieces) |-> Str(Join(pieces[i]))]

\* JWTService.extractTokenFromHeader.  A header is the list of its parts
\* between single spaces (what split(' ') returns); <<>> is no header.
ExtractTokenFromHeader(authHeader) ==
    IF authHeader = <<>> \/ authHeader = <<Str("")>>
    THEN {}
    ELSE IF Len(authHeader) # 2 \/ authHeader[1] # Str("Bearer")
    THEN {}
    ELSE {authHeader[2]}

(***************************************************************************)
(* User directory: PostgresAdapter over the users table.  A row carries    *)
(* the columns of the table under their column names, as pg returns them.  *)
(* Each query of a request has an ordinal q; the query with ordinal failAt *)
(* throws (failAt = 0: none does).                                         *)
(***************************************************************************)
DigitChars == <<"0", "1", "2", "3", "4", "5", "6", "7", "8", "9">>

IsDigit(c) == \E d \in 1..10 : DigitChars[d] = c

DigitVal(c) == (CHOOSE d \in 1..10 : DigitChars[d] = c) - 1

\* (id).toString() of a row id (ids stay below 10 in the model).
IdToString(n) == <<DigitChars[n + 1]>>

RECURSIVE DecimalValue(_)
DecimalValue(s) ==
    IF s = <<>> THEN 0
    ELSE 10 * DecimalValue(SubSeq(s, 1, Len(s) - 1)) + DigitVal(s[Len(s)])

\* A query parameter compared with the integer column id.  A number is
\* itself; a string is parsed by PostgreSQL's integer input ('01' is 1), and
\* a string that is no integer makes the query throw.
NumKey(n) == [valid |-> TRUE, n |-> n]

ParamKey(s) ==
    IF s # <<>> /\ \A i \in 1..Len(s) : IsDigit(s[i])
    THEN [valid |-> TRUE, n |-> DecimalValue(s)]
    ELSE [valid |-> FALSE, n |-> 0]

QueryFails(key, q, failAt) == q = failAt \/ ~key.valid

\* PostgresAdapter.getUserById: rows[0] || null; a throwing query is logged
\* and answered null.
GetUserById(us, key, q, failAt) ==
    IF QueryFails(key, q, failAt) THEN {}
    ELSE IF key.n \in DOMAIN us THEN {us[key.n]} ELSE {}

\* PostgresAdapter.getUserByEmail (the comparison of VARCHAR is exact).
GetUserByEmail(us, email, q, failAt) ==
    IF q = failAt THEN {}
    ELSE {us[i] : i \in {j \in DOMAIN us : us[j].email = email}}

\* PostgresAdapter.getAllUsers: a throwing query is answered [].
GetAllUsers(us, q, failAt) ==
    IF q = failAt THEN {} ELSE {us[i] : i \in DOMAIN us}

\* UPDATE users SET <col> = <val> WHERE id = $: the new table and whether a
\* row was updated (rowCount > 0); a throwing query is answered false.
UpdateColumn(us, key, col, val, q, failAt) ==
    IF QueryFails(key, q, failAt) \/ key.n \notin DOMAIN us
    THEN [users |-> us, success |-> FALSE]
    ELSE [users |-> [us EXCEPT ![key.n] = [@ EXCEPT ![col] = val]],
          success |-> TRUE]

\* PostgresAdapter.updateUserRole; the CHECK constraint of the role column
\* makes the query throw for a value outside the three roles.
UpdateUserRole(us, key, role, q, failAt) ==
    IF role \notin Roles
    THEN [users |-> us, success |-> FALSE]
    ELSE UpdateColumn(us, key, "role", role, q, failAt)

\* PostgresAdapter.deactivateUser
DeactivateUser(us, key, q, failAt) ==
    UpdateColumn(us, key, "is_active", FALSE, q, failAt)

\* PostgresAdapter.reactivateUser
ReactivateUser(us, key, q, failAt) ==
    UpdateColumn(us, key, "is_active", TRUE, q, failAt)

\* PostgresAdapter.deleteUser
DeleteUser(us, key, q, failAt) ==
    IF QueryFails(key, q, failAt) \/ key.n \notin DOMAIN us
    THEN [users |-> us, success |-> FALSE]
    ELSE [users |-> [i \in DOMAIN us \ {key.n} |-> us[i]], success |-> TRUE]

\* PostgresAdapter.createOrUpdateUser, the role of a new row: userCount is
\* COUNT(*) of the table before the insert.
FirstUserRoleNoParse(userCount) == "user"

FirstUserRoleOffByOne(userCount) ==
    IF userCount = 1 THEN "super_admin" ELSE "user"

FirstUserRole(userCount) ==
    IF userCount = 0 THEN "super_admin" ELSE "user"

\* The provider stored with a new row: provider || 'microsoft' ("" is a
\* body without a provider).
ProviderOrDefault(provider) == IF provider = "" THEN "microsoft" ELSE provider

UpdateExistingAsUpsert(us, email, name, t) ==
    LET hit == {i \in DOMAIN us : us[i].email = email}
        new == [i \in DOMAIN us |->
                   IF i \in hit
                   THEN [us[i] EXCEPT !.name = name, !.last_login = t,
                                      !.is_active = TRUE]
                   ELSE us[i]]
    IN [users |-> new, user |-> {new[i] : i \in hit}]

\* UPDATE users SET name, last_login, updated_at WHERE email = $ RETURNING *:
\* the row with the email gets the name and last_login = CURRENT_TIMESTAMP
\* (created_at and updated_at are not modelled); rows[0] is undefined when
\* no row has the email.
UpdateExisting(us, email, name, t) ==
    LET hit == {i \in DOMAIN us : us[i].email = email}
        new == [i \in DOMAIN us |->
                   IF i \in hit THEN [us[i] EXCEPT !.name = name, !.last_login = t]
                   ELSE us[i]]
    IN [users |-> new, user |-> {new[i] : i \in hit}]

\* INSERT INTO users ... RETURNING *: the row gets the next value of the id
\* sequence and the role userCount decides; an email already in the table
\* violates UNIQUE and the query throws after it has drawn an id.
InsertUser(us, nid, email, name, provider, userCount, t) ==
    LET row == [id |-> nid, email |-> email, name |-> name,
                role |-> FirstUserRole(userCount),
                provider |-> ProviderOrDefault(provider), last_login |-> t,
                is_active |-> TRUE]
    IN IF \E i \in DOMAIN us : us[i].email = email
       THEN [users |-> us, nextId |-> nid + 1, user |-> {}]
       ELSE [users |-> [i \in DOMAIN us \cup {nid} |->
                            IF i = nid THEN row ELSE us[i]],
             nextId |-> nid + 1, user |-> {row}]

\* PostgresAdapter.createOrUpdateUser with no other request between its
\* queries: lookup by email; an existing row is updated; otherwise COUNT(*)
\* decides the role and the row is inserted.  Any throwing query but the
\* lookup ends in null (user = {}); a lookup that throws counts as "no such
\* user", and the insert then violates the unique email.
CreateOrUpdateUser(us, nid, email, name, provider, t, failAt) ==
    LET existing == GetUserByEmail(us, email, 1, failAt)
    IN IF existing # {}
       THEN IF failAt = 2
            THEN [users |-> us, nextId |-> nid, user |-> {}]
            ELSE LET r == UpdateExisting(us, email, name, t)
                 IN [users |-> r.users, nextId |-> nid, user |-> r.user]
       ELSE IF failAt \in {2, 3}
       THEN [users |-> us, nextId |-> nid, user |-> {}]
       ELSE InsertUser(us, nid, email, name, provider, Cardinality(DOMAIN us), t)

(***************************************************************************)
(* Requests and the per-request context.  A request carries the four token *)
(* sources and req.user (empty unless a middleware attached an identity).  *)
(* The context records the responses sent, the stages that ran, and the    *)
(* stages that invoked their continuation.                                 *)
(***************************************************************************)
Request(h, c, qy, x) ==
    [authorization |-> h, cookie |-> c, query |-> qy, xAuthToken |-> x]

NoTokenRequest == Request(<<>>, Undefined, Undefined, Undefined)

BearerRequest(tok) == Request(<<Str("Bearer"), tok>>, Undefined, Undefined, Undefined)

Ctx0(req, reqUser) ==
    [req |-> req, user |-> reqUser, status |-> 0, error |-> "", sent |-> 0,
     stages |-> <<>>, conts |-> <<>>, q |-> 0, token |-> {}, consulted |-> <<>>,
     tokenUsed |-> {}]

Enter(ctx, stage) == [ctx EXCEPT !.stages = Append(@, stage)]

\* res.status(code).json({error})
Respond(ctx, code, error) ==
    [ctx EXCEPT !.status = code, !.error = error, !.sent = @ + 1]

\* next()
Continue(ctx, stage) == [ctx EXCEPT !.conts = Append(@, stage)]

Ran(ctx, stage) == \E i \in 1..Len(ctx.stages) : ctx.stages[i] = stage

Continued(ctx, stage) == \E i \in 1..Len(ctx.conts) : ctx.conts[i] = stage

ExtractTraceQueryFirst(req) ==
    LET headerToken == ExtractTokenFromHeader(req.authorization)
    IN IF headerToken # {} /\ \A tk \in headerToken : Truthy(tk)
       THEN [token |-> headerToken, consulted |-> <<"authorization">>]
       ELSE IF Truthy(req.query) /\ IsString(req.query)
       THEN [token |-> {req.query}, consulted |-> <<"authorization", "query">>]
       ELSE IF Truthy(req.cookie)
       THEN [token |-> {req.cookie},
             consulted |-> <<"authorization", "query", "cookie">>]
       ELSE IF Truthy(req.xAuthToken) /\ IsString(req.xAuthToken)
       THEN [token |-> {req.xAuthToken},
             consulted |-> <<"authorization", "query", "cookie", "x-auth-token">>]
       ELSE [token |-> {},
             consulted |-> <<"authorization", "query", "cookie", "x-auth-token">>]

\* AuthMiddleware.extractToken, with the sources it read on the way.
ExtractTrace(req) ==
    LET headerToken == ExtractTokenFromHeader(req.authorization)
    IN IF headerToken # {} /\ \A tk \in headerToken : Truthy(tk)
       THEN [token |-> headerToken, consulted |-> <<"authorization">>]
       ELSE IF Truthy(req.cookie)
       THEN [token |-> {req.cookie}, consulted |-> <<"authorization", "cookie">>]
       ELSE IF Truthy(req.query) /\ IsString(req.query)
       THEN [token |-> {req.query},
             consulted |-> <<"authorization", "cookie", "query">>]
       ELSE IF Truthy(req.xAuthToken) /\ IsString(req.xAuthToken)
       THEN [token |-> {req.xAuthToken},
             consulted |-> <<"authorization", "cookie", "query", "x-auth-token">>]
       ELSE [token |-> {},
             consulted |-> <<"authorization", "cookie", "query", "x-auth-token">>]

ExtractToken(req) == ExtractTrace(req).token

\* The read of user.isActive on a row as the adapter returns it: a property
\* the object does not have reads as undefined, which is falsy.
UserIsActive(user) ==
    IF "isActive" \in DOMAIN user THEN user.isActive ELSE FALSE

\* AuthMiddleware.authenticate, the catch block: the response for an error
\* thrown by the verification.
AuthFailureExpiredAs500(ctx, err) ==
    IF err = "Invalid token"
    THEN Respond(ctx, 401, "Invalid token")
    ELSE Respond(ctx, 500, "Authentication failed")

AuthFailure(ctx, err) ==
    IF err = "Token has expired"
    THEN Respond(ctx, 401, "Token has expired")
    ELSE IF err = "Invalid token"
    THEN Respond(ctx, 401, "Invalid token")
    ELSE Respond(ctx, 500, "Authentication failed")

\* AuthMiddleware.authenticate, after the directory lookup: user is what
\* getUserById returned.
AuthLoadedInactiveAs401(ctx, user) ==
    IF user = {} \/ \E u \in user : ~UserIsActive(u)
    THEN Respond(ctx, 401, "User not found")
    ELSE Continue([ctx EXCEPT !.user = user], "authenticate")

AuthLoadedNoReturn(ctx, user) ==
    IF user = {}
    THEN Respond(ctx, 401, "User not found")
    ELSE IF \E u \in user : ~UserIsActive(u)
    THEN Continue([Respond(ctx, 403, "User account is deactivated")
                      EXCEPT !.user = user], "authenticate")
    ELSE Continue([ctx EXCEPT !.user = user], "authenticate")

AuthLoaded(ctx, user) ==
    IF user = {}
    THEN Respond(ctx, 401, "User not found")
    ELSE IF \E u \in user : ~UserIsActive(u)
    THEN Respond(ctx, 403, "User account is deactivated")
    ELSE Continue([ctx EXCEPT !.user = user], "authenticate")

\* AuthMiddleware.authenticate
Authenticate(ctx0, us, t, failAt, libFault) ==
    LET x == ExtractTrace(ctx0.req)
        ctx == [Enter(ctx0, "authenticate") EXCEPT
                   !.consulted = x.consulted, !.tokenUsed = x.token]
    IN IF x.token = {}
       THEN Respond(ctx, 401, "No authentication token provided")
       ELSE LET tok == CHOOSE tk \in x.token : TRUE
                v == VerifyToken(tok, t, libFault)
            IN IF v.err # ""
               THEN AuthFailure(ctx, v.err)
               ELSE AuthLoaded([ctx EXCEPT !.q = @ + 1],
                               GetUserById(us, NumKey(v.payload.userId),
                                           ctx.q + 1, failAt))

RequireAdminOr(ctx0) ==
    LET ctx == Enter(ctx0, "requireAdmin")
    IN IF ctx.user = {}
       THEN Respond(ctx, 401, "Authentication required")
       ELSE IF \E u \in ctx.user : u.role # "admin" \/ u.role # "super_admin"
       THEN Respond(ctx, 403, "Admin access required")
       ELSE Continue(ctx, "requireAdmin")

\* AuthMiddleware.requireAdmin
RequireAdmin(ctx0) ==
    LET ctx == Enter(ctx0, "requireAdmin")
    IN IF ctx.user = {}
       THEN Respond(ctx, 401, "Authentication required")
       ELSE IF \E u \in ctx.user : u.role # "admin" /\ u.role # "super_admin"
       THEN Respond(ctx, 403, "Admin access required")
       ELSE Continue(ctx, "requireAdmin")

RequireSuperAdminLoose(ctx0) ==
    LET ctx == Enter(ctx0, "requireSuperAdmin")
    IN IF ctx.user = {}
       THEN Respond(ctx, 401, "Authentication required")
       ELSE IF \E u \in ctx.user : u.role # "admin" /\ u.role # "super_admin"
       THEN Respond(ctx, 403, "Super admin access required")
       ELSE Continue(ctx, "requireSuperAdmin")

\* AuthMiddleware.requireSuperAdmin
RequireSuperAdmin(ctx0) ==
    LET ctx == Enter(ctx0, "requireSuperAdmin")
    IN IF ctx.user = {}
       THEN Respond(ctx, 401, "Authentication required")
       ELSE IF \E u \in ctx.user : u.role # "super_admin"
       THEN Respond(ctx, 403, "Super admin access required")
       ELSE Continue(ctx, "requireSuperAdmin")

OptionalAuthNoCatch(ctx0, us, t, failAt, libFault) ==
    LET x == ExtractTrace(ctx0.req)
        ctx == [Enter(ctx0, "optionalAuth") EXCEPT
                   !.consulted = x.consulted, !.tokenUsed = x.token]
    IN IF x.token = {}
       THEN Continue(ctx, "optionalAuth")
       ELSE LET tok == CHOOSE tk \in x.token : TRUE
                v == VerifyToken(tok, t, libFault)
            IN IF v.err # ""
               THEN ctx
               ELSE LET user == GetUserById(us, NumKey(v.payload.userId),
                                            ctx.q + 1, failAt)
                        c1 == [ctx EXCEPT !.q = @ + 1]
                    IN IF user # {} /\ \A u \in user : UserIsActive(u)
                       THEN Continue([c1 EXCEPT !.user = user], "optionalAuth")
                       ELSE Continue(c1, "optionalAuth")

\* AuthMiddleware.optionalAuth
OptionalAuth(ctx0, us, t, failAt, libFault) ==
    LET x == ExtractTrace(ctx0.req)
        ctx == [Enter(ctx0, "optionalAuth") EXCEPT
                   !.consulted = x.consulted, !.tokenUsed = x.token]
    IN IF x.token = {}
       THEN Continue(ctx, "optionalAuth")
       ELSE LET tok == CHOOSE tk \in x.token : TRUE
                v == VerifyToken(tok, t, libFault)
            IN IF v.err # ""
               THEN Continue(ctx, "optionalAuth")
               ELSE LET user == GetUserById(us, NumKey(v.payload.userId),
                                            ctx.q + 1, failAt)
                        c1 == [ctx EXCEPT !.q = @ + 1]
                    IN IF user # {} /\ \A u \in user : UserIsActive(u)
                       THEN Continue([c1 EXCEPT !.user = user], "optionalAuth")
                       ELSE Continue(c1, "optionalAuth")

(***************************************************************************)
(* Rate limiter: AuthMiddleware.rateLimit(maxRequests, windowMs).  The map *)
(* `requests` of one limiter instance holds, per client identifier, the    *)
(* count and the reset deadline of the client's window.  Date.now() is in  *)
(* milliseconds; the clock of the model ticks in seconds.                  *)
(***************************************************************************)
MaxRequests == 2

WindowMs == 1000

DateNow(t) == t * 1000

\* req.ip || 'unknown' ("" is a request without an address)
Identifier(ip) == IF ip = "" THEN "unknown" ELSE ip

\* Math.ceil(ms / 1000) for ms >= 0
CeilSeconds(ms) == (ms + 999) \div 1000

\* requests.set(identifier, entry)
MapSet(reqs, id, entry) ==
    [i \in DOMAIN reqs \cup {id} |-> IF i = id THEN entry ELSE reqs[i]]

RateLimitLostUpdate(ctx0, reqs, ip, t) ==
    LET ctx == Enter(ctx0, "rateLimit")
        identifier == Identifier(ip)
        nowMs == DateNow(t)
    IN IF identifier \notin DOMAIN reqs \/ nowMs > reqs[identifier].resetTime
       THEN [ctx |-> Continue(ctx, "rateLimit"),
             requests |-> MapSet(reqs, identifier,
                                 [count |-> 1, resetTime |-> nowMs + WindowMs]),
             retryAfter |-> 0]
       ELSE IF reqs[identifier].count >= MaxRequests
       THEN [ctx |-> Respond(ctx, 429, "Too many requests"),
             requests |-> reqs,
             retryAfter |-> CeilSeconds(reqs[identifier].resetTime - nowMs)]
       ELSE [ctx |-> Continue(ctx, "rateLimit"), requests |-> reqs,
             retryAfter |-> 0]

RateLimitExtending(ctx0, reqs, ip, t) ==
    LET ctx == Enter(ctx0, "rateLimit")
        identifier == Identifier(ip)
        nowMs == DateNow(t)
    IN IF identifier \notin DOMAIN reqs \/ nowMs > reqs[identifier].resetTime
       THEN [ctx |-> Continue(ctx, "rateLimit"),
             requests |-> MapSet(reqs, identifier,
                                 [count |-> 1, resetTime |-> nowMs + WindowMs]),
             retryAfter |-> 0]
       ELSE IF reqs[identifier].count >= MaxRequests
       THEN [ctx |-> Respond(ctx, 429, "Too many requests"),
             requests |-> [reqs EXCEPT ![identifier].resetTime = nowMs + WindowMs],
             retryAfter |-> CeilSeconds(reqs[identifier].resetTime - nowMs)]
       ELSE [ctx |-> Continue(ctx, "rateLimit"),
             requests |-> [reqs EXCEPT ![identifier].count = @ + 1],
             retryAfter |-> 0]

\* The middleware rateLimit returns.
RateLimit(ctx0, reqs, ip, t) ==
    LET ctx == Enter(ctx0, "rateLimit")
        identifier == Identifier(ip)
        nowMs == DateNow(t)
    IN IF identifier \notin DOMAIN reqs \/ nowMs > reqs[identifier].resetTime
       THEN [ctx |-> Continue(ctx, "rateLimit"),
             requests |-> MapSet(reqs, identifier,
                                 [count |-> 1, resetTime |-> nowMs + WindowMs]),
             retryAfter |-> 0]
       ELSE IF reqs[identifier].count >= MaxRequests
       THEN [ctx |-> Respond(ctx, 429, "Too many requests"),
             requests |-> reqs,
             retryAfter |-> CeilSeconds(reqs[identifier].resetTime - nowMs)]
       ELSE [ctx |-> Continue(ctx, "rateLimit"),
             requests |-> [reqs EXCEPT ![identifier].count = @ + 1],
             retryAfter |-> 0]

(***************************************************************************)
(* Route handlers (createAuthRoutes).  A handler returns the context, the  *)
(* table and the id sequence it leaves.                                    *)
(***************************************************************************)
Out(ctx, us, nid) == [ctx |-> ctx, users |-> us, nextId |-> nid]

SsoLoginHandlerUpsertFirst(ctx0, us, nid, t, email, name, provider, failAt) ==
    LET ctx == Enter(ctx0, "handler")
        r == CreateOrUpdateUser(us, nid, email, name, provider, t, failAt)
    IN IF email = <<>> \/ name = ""
       THEN Out(Respond(ctx, 400, "Email and name are required"), r.users, r.nextId)
       ELSE IF ~CheckAccessControl(email)
       THEN Out(Respond(ctx, 403, "Access denied"), r.users, r.nextId)
       ELSE IF r.user = {}
       THEN Out(Respond(ctx, 500, "Failed to create or update user"),
                r.users, r.nextId)
       ELSE Out([Respond(ctx, 200, "") EXCEPT
                    !.token = {GenerateToken(u, t) : u \in r.user}],
                r.users, r.nextId)

\* POST /sso-login after createOrUpdateUser answered: null is a 500, a user
\* gets a token.
SsoLoginAnswer(ctx, user, t) ==
    IF user = {}
    THEN Respond(ctx, 500, "Failed to create or update user")
    ELSE [Respond(ctx, 200, "") EXCEPT
             !.token = {GenerateToken(u, t) : u \in user}]

\* POST /sso-login
SsoLoginHandler(ctx0, us, nid, t, email, name, provider, failAt) ==
    LET ctx == Enter(ctx0, "handler")
    IN IF email = <<>> \/ name = ""
       THEN Out(Respond(ctx, 400, "Email and name are required"), us, nid)
       ELSE IF ~CheckAccessControl(email)
       THEN Out(Respond(ctx, 403, "Access denied"), us, nid)
       ELSE LET r == CreateOrUpdateUser(us, nid, email, name, provider, t, failAt)
            IN Out(SsoLoginAnswer(ctx, r.user, t), r.users, r.nextId)

\* GET /me handler
MeHandler(ctx0) == Respond(Enter(ctx0, "handler"), 200, "")

\* POST /logout
LogoutHandler(ctx0) == Respond(Enter(ctx0, "handler"), 200, "")

\* GET /health (enabled unless enableHealthCheck is false)
HealthHandler(ctx0) == Respond(Enter(ctx0, "handler"), 200, "")

\* GET /config
ConfigHandler(ctx0) == Respond(Enter(ctx0, "handler"), 200, "")

\* GET /users handler
ListUsersHandler(ctx0) ==
    Respond([Enter(ctx0, "handler") EXCEPT !.q = @ + 1], 200, "")

\* PUT /users/:userId/role handler, from the answer of getAllUsers on: the
\* list read (allUsers) and the table the update then finds (us) are those
\* of two directory calls, with whatever other requests did in between.
ChangeRoleHandlerOn(ctx0, allUsers, us, userId, role, failAt) ==
    LET ctx == Enter(ctx0, "handler")
    IN IF role \notin Roles
       THEN Out(Respond(ctx, 400, "Invalid role"), us, 0)
       ELSE LET guarded == role # "super_admin"
                superAdmins == {u \in allUsers : u.role = "super_admin"}
                q1 == IF guarded THEN ctx.q + 1 ELSE ctx.q
            IN IF /\ guarded
                  /\ Cardinality(superAdmins) = 1
                  /\ \A u \in superAdmins : IdToString(u.id) = userId
               THEN Out(Respond([ctx EXCEPT !.q = q1], 400,
                                "Cannot remove the last super admin"), us, 0)
               ELSE LET r == UpdateUserRole(us, ParamKey(userId), role,
                                            q1 + 1, failAt)
                    IN IF r.success
                       THEN Out(Respond([ctx EXCEPT !.q = q1 + 2], 200, ""),
                                r.users, 0)
                       ELSE Out(Respond([ctx EXCEPT !.q = q1 + 1], 404,
                                        "User not found"), r.users, 0)

\* PUT /users/:userId/role handler of a request handled with no other
\* request in between its directory calls.
ChangeRoleHandler(ctx0, us, userId, role, failAt) ==
    ChangeRoleHandlerOn(ctx0, GetAllUsers(us, ctx0.q + 1, failAt), us, userId,
                        role, failAt)

\* POST /users/:userId/deactivate and /reactivate handlers
ActiveHandler(ctx0, us, userId, active, failAt) ==
    LET ctx == [Enter(ctx0, "handler") EXCEPT !.q = @ + 1]
        r == IF active
             THEN ReactivateUser(us, ParamKey(userId), ctx.q, failAt)
             ELSE DeactivateUser(us, ParamKey(userId), ctx.q, failAt)
    IN IF r.success
       THEN Out(Respond(ctx, 200, ""), r.users, 0)
       ELSE Out(Respond(ctx, 404, "User not found"), r.users, 0)

(***************************************************************************)
(* Routes: the middleware of a route run in order; a stage runs only when  *)
(* the stage before it invoked its continuation.                           *)
(***************************************************************************)
MeRouteNoGate(req, us, t, failAt, libFault) == MeHandler(Ctx0(req, {}))

\* router.get('/me', authenticate, handler)
MeRoute(req, us, t, failAt, libFault) ==
    LET c1 == Authenticate(Ctx0(req, {}), us, t, failAt, libFault)
    IN IF Continued(c1, "authenticate") THEN MeHandler(c1) ELSE c1

LogoutRouteRevoking(req, us, nid) ==
    LET tok == ExtractToken(req)
        key == {NumKey(tk.userId) : tk \in {x \in tok : x.kind = "jwt"}}
    IN Out(LogoutHandler(Ctx0(req, {})),
           IF key = {} THEN us
           ELSE DeactivateUser(us, CHOOSE k \in key : TRUE, 1, 0).users,
           nid)

\* router.post('/logout', handler): the handler reads nothing of the request
\* and calls neither the directory nor the token service.
LogoutRoute(req, us, nid) ==
    Out(LogoutHandler(Ctx0(req, {})), us, nid)

\* router.get('/users', authenticate, requireSuperAdmin, handler)
ListUsersRoute(req, us, t, failAt, libFault) ==
    LET c1 == Authenticate(Ctx0(req, {}), us, t, failAt, libFault)
        c2 == IF Continued(c1, "authenticate") THEN RequireSuperAdmin(c1) ELSE c1
    IN IF Continued(c2, "requireSuperAdmin") THEN ListUsersHandler(c2) ELSE c2

\* router.put('/users/:userId/role', authenticate, requireSuperAdmin, handler)
ChangeRoleRoute(req, us, t, userId, role, failAt, libFault) ==
    LET c1 == Authenticate(Ctx0(req, {}), us, t, failAt, libFault)
        c2 == IF Continued(c1, "authenticate") THEN RequireSuperAdmin(c1) ELSE c1
    IN IF Continued(c2, "requireSuperAdmin")
       THEN ChangeRoleHandler(c2, us, userId, role, failAt)
       ELSE Out(c2, us, 0)

\* router.post('/users/:userId/deactivate' | 'reactivate', authenticate,
\* requireAdmin, handler)
ActiveRoute(req, us, t, userId, active, failAt, libFault) ==
    LET c1 == Authenticate(Ctx0(req, {}), us, t, failAt, libFault)
        c2 == IF Continued(c1, "authenticate") THEN RequireAdmin(c1) ELSE c1
    IN IF Continued(c2, "requireAdmin")
       THEN ActiveHandler(c2, us, userId, active, failAt)
       ELSE Out(c2, us, 0)

(***************************************************************************)
(* The router createAuthRoutes returns.  Express runs the layers of a       *)
(* router in the order they were registered: the routes first, and last    *)
(* router.use(basePath/*, rateLimit(...)).  A request goes to the first     *)
(* layer that matches it; a later layer runs only when the earlier one      *)
(* invoked its continuation, which no final handler of a route does.  The  *)
(* limiter of the router is modelled with the parameters MaxRequests and   *)
(* WindowMs of the model in place of 20 and 60000.                          *)
(***************************************************************************)
RouterOut(ctx, us, nid, reqs) ==
    [ctx |-> ctx, users |-> us, nextId |-> nid, requests |-> reqs]

\* The layer router.use(basePath/*, rateLimit): reached by a request no
\* route answered; after it no layer is left and Express answers 404.
RateLimitLayer(ctx0, us, nid, reqs, ip, t) ==
    LET r == RateLimit(ctx0, reqs, ip, t)
    IN IF Continued(r.ctx, "rateLimit")
       THEN RouterOut(Respond(Enter(r.ctx, "notFound"), 404, "Not Found"),
                      us, nid, r.requests)
       ELSE RouterOut(r.ctx, us, nid, r.requests)

\* The router handling a request of a client for a path under basePath.
RouterHandle(path, ip, us, nid, reqs, t, email, name) ==
    LET ctx0 == Ctx0(NoTokenRequest, {})
    IN IF path = "sso-login"
       THEN LET r == SsoLoginHandler(ctx0, us, nid, t, email, name, "", 0)
            IN RouterOut(r.ctx, r.users, r.nextId, reqs)
       ELSE IF path = "logout"
       THEN RouterOut(LogoutHandler(ctx0), us, nid, reqs)
       ELSE RateLimitLayer(ctx0, us, nid, reqs, ip, t)

(***************************************************************************)
(* Concurrent requests.  The server runs one request until it awaits a      *)
(* directory call and may run another meanwhile: a request in flight is a  *)
(* process whose step is the code up to and including its next directory   *)
(* call.  pending holds the processes: inputs, the table found on arrival  *)
(* (pre), the context so far, what the calls answered, and the position.   *)
(***************************************************************************)
RoleProc(req, userId, role, us) ==
    [op |-> "role", pc |-> "authenticate", req |-> req, userId |-> userId,
     role |-> role, pre |-> us, ctx |-> Ctx0(req, {}), allUsers |-> {}]

Finished(proc, ctx) == [proc EXCEPT !.pc = "done", !.ctx = ctx]

\* One step of PUT /users/:userId/role: authenticate with its getUserById
\* and the role gate; then getAllUsers (skipped for role super_admin); then
\* the decision on the list read and updateUserRole.
RoleStep(proc, us, t) ==
    IF proc.pc = "authenticate"
    THEN LET c1 == Authenticate(proc.ctx, us, t, 0, FALSE)
             c2 == IF Continued(c1, "authenticate") THEN RequireSuperAdmin(c1)
                   ELSE c1
         IN IF ~Continued(c2, "requireSuperAdmin")
            THEN [proc |-> Finished(proc, c2), users |-> us]
            ELSE IF proc.role \notin Roles
            THEN [proc |-> Finished(proc,
                                    ChangeRoleHandlerOn(c2, {}, us, proc.userId,
                                                        proc.role, 0).ctx),
                  users |-> us]
            ELSE [proc |-> [proc EXCEPT !.ctx = c2,
                                        !.pc = IF proc.role # "super_admin"
                                               THEN "list" ELSE "update"],
                  users |-> us]
    ELSE IF proc.pc = "list"
    THEN [proc |-> [proc EXCEPT !.pc = "update",
                                !.allUsers = GetAllUsers(us, proc.ctx.q + 1, 0)],
          users |-> us]
    ELSE LET r == ChangeRoleHandlerOn(proc.ctx, proc.allUsers, us, proc.userId,
                                      proc.role, 0)
         IN [proc |-> Finished(proc, r.ctx), users |-> r.users]

LoginProc(email, name, us) ==
    [op |-> "sso-login", pc |-> "lookup", email |-> email, name |-> name,
     pre |-> us, ctx |-> Enter(Ctx0(NoTokenRequest, {}), "handler"),
     userCount |-> 0]

\* One step of POST /sso-login: the checks of the body and the lookup by
\* email; then the UPDATE of the row found, or COUNT(*) and, a step later,
\* the INSERT with the role the count read decides; the answer follows the
\* write.
LoginStep(proc, us, nid, t) ==
    IF proc.pc = "lookup"
    THEN LET r == SsoLoginHandler(Ctx0(NoTokenRequest, {}), us, nid, t,
                                  proc.email, proc.name, "", 0)
         IN IF proc.email = <<>> \/ proc.name = "" \/ ~CheckAccessControl(proc.email)
            THEN [proc |-> Finished(proc, r.ctx), users |-> us, nextId |-> nid]
            ELSE [proc |-> [proc EXCEPT
                               !.pc = IF GetUserByEmail(us, proc.email, 1, 0) # {}
                                      THEN "update" ELSE "count"],
                  users |-> us, nextId |-> nid]
    ELSE IF proc.pc = "count"
    THEN [proc |-> [proc EXCEPT !.pc = "insert",
                                !.userCount = Cardinality(DOMAIN us)],
          users |-> us, nextId |-> nid]
    ELSE IF proc.pc = "update"
    THEN LET r == UpdateExisting(us, proc.email, proc.name, t)
         IN [proc |-> Finished(proc, SsoLoginAnswer(proc.ctx, r.user, t)),
             users |-> r.users, nextId |-> nid]
    ELSE LET r == InsertUser(us, nid, proc.email, proc.name, "", proc.userCount, t)
         IN [proc |-> Finished(proc, SsoLoginAnswer(proc.ctx, r.user, t)),
             users |-> r.users, nextId |-> r.nextId]

\* A host that suspends an identity: it calls deactivateUser(id) and, later,
\* reactivateUser(id).  The process records whether each call succeeded.
SuspendProc(userId) ==
    [op |-> "suspend", pc |-> "start", userId |-> userId]

SuspendStep(proc, us) ==
    IF proc.pc = "start"
    THEN LET r == DeactivateUser(us, NumKey(proc.userId), 1, 0)
         IN [proc |-> [proc EXCEPT !.pc = IF r.success THEN "deactivated"
                                         ELSE "done"],
             users |-> r.users]
    ELSE LET r == ReactivateUser(us, NumKey(proc.userId), 1, 0)
         IN [proc |-> [proc EXCEPT !.pc = IF r.success THEN "reactivated"
                                         ELSE "done"],
             users |-> r.users]

(***************************************************************************)
(* Client (useAuth.tsx).  The context holds user and token, each null ({}) *)
(* or a value, and the loading flag.                                       *)
(***************************************************************************)
\* isAuthenticated = !!user && !!token (an empty string is falsy)
IsAuthenticated(user, token) == user # {} /\ token # {} /\ token # {""}

\* roleHierarchy of ProtectedRoute
RoleHierarchy(role) ==
    IF role = "user" THEN 0 ELSE IF role = "admin" THEN 1 ELSE 2

\* requiredRole = 'user' when the property is not given ({})
RequiredRoleOrDefault(requiredRole) ==
    IF requiredRole = {} THEN "user" ELSE CHOOSE r \in requiredRole : TRUE

ProtectedRouteInclusive(isLoading, user, token, requiredRole) ==
    IF isLoading THEN "loading"
    ELSE IF ~IsAuthenticated(user, token) THEN "fallback"
    ELSE LET userRoleLevel == RoleHierarchy((CHOOSE u \in user : TRUE).role)
             requiredRoleLevel ==
                 RoleHierarchy(RequiredRoleOrDefault(requiredRole))
         IN IF userRoleLevel <= requiredRoleLevel THEN "fallback"
            ELSE "children"

\* ProtectedRoute: what it renders.
ProtectedRoute(isLoading, user, token, requiredRole) ==
    IF isLoading THEN "loading"
    ELSE IF ~IsAuthenticated(user, token) THEN "fallback"
    ELSE LET userRoleLevel == RoleHierarchy((CHOOSE u \in user : TRUE).role)
             requiredRoleLevel ==
                 RoleHierarchy(RequiredRoleOrDefault(requiredRole))
         IN IF userRoleLevel < requiredRoleLevel THEN "fallback"
            ELSE "children"

(***************************************************************************)
(* Client session (HeimdallProvider of useAuth.tsx, tokenStorage being     *)
(* localStorage or sessionStorage).  The state of the provider is token,   *)
(* user, the loading flag, and the item auth_token of the storage (stored);*)
(* a fetch in flight is a process that resumes when its response arrives.  *)
(***************************************************************************)
\* useState initialisers: token is the stored item, user null, loading.
ProviderState(stored) ==
    [token |-> stored, user |-> {}, isLoading |-> TRUE, stored |-> stored]

\* !token is false: the token is neither null nor the empty string.
TokenSet(token) == token # {} /\ token # {""}

\* verifyToken up to its fetch of /me: without a token it ends the loading.
VerifyBegin(c) ==
    IF ~TokenSet(c.token) THEN [c EXCEPT !.isLoading = FALSE] ELSE c

\* The provider once it is mounted and its effects ran to their first await.
Mounted(stored) == VerifyBegin(ProviderState(stored))

\* handleTokenClear
HandleTokenClear(c) == [c EXCEPT !.token = {}, !.user = {}, !.stored = {}]

\* useEffect(..., [token, apiUrl]): verifyToken runs again when the token
\* changed; the only value the provider ever sets is null, so no fetch.
TokenEffect(before, after) ==
    IF after.token # before.token THEN VerifyBegin(after) ELSE after

\* verifyToken from the response of /me on: an ok response sets the user,
\* any other response or a fetch that threw clears the session; finally the
\* loading ends.
VerifyEnd(c, ok, user) ==
    LET c1 == IF ok THEN [c EXCEPT !.user = user] ELSE HandleTokenClear(c)
    IN TokenEffect(c, [c1 EXCEPT !.isLoading = FALSE])

\* logout from the response of /logout on, whatever it is (finally).
LogoutEnd(c) == TokenEffect(c, HandleTokenClear(c))

VerifyProc(token) == [op |-> "verifyToken", pc |-> "fetch", token |-> token]

LogoutProc(token) == [op |-> "logout", pc |-> "fetch", token |-> token]

(***************************************************************************)
(* Inputs.                                                                 *)
(***************************************************************************)
MaxQueries == 4

\* What goes wrong in a request: -1 the token library throws an error of its
\* own, 0 nothing, k > 0 the k-th directory query of the request throws.
Faults == (-1)..MaxQueries

FailAt(fault) == IF fault > 0 THEN fault ELSE 0

LibFault(fault) == fault = -1

\* Tokens a client can present: those issued to it, the same with a wrong
\* signature, and a string that is no token.
KnownTokens == issued \cup {Tamper(tk) : tk \in issued} \cup {Str("garbage")}

RouteRequests == {NoTokenRequest} \cup {BearerRequest(tk) : tk \in KnownTokens}

UserIds == 1..(MaxUsers + 1)

UserIdParams == {IdToString(i) : i \in 1..MaxUsers} \cup {<<"0", "1">>, <<"x">>}

BodyRoles == Roles \cup {"owner"}

NoInput == [fault |-> 0]

\* What the last request was and did: its inputs, the table it found (pre)
\* and its context when it ended.
Record(op, in, ctx) == [op |-> op, in |-> in, pre |-> users, ctx |-> ctx]

Idle == [op |-> "idle", in |-> NoInput, pre |-> <<>>, ctx |-> Ctx0(NoTokenRequest, {})]

\* Requests are handled one at a time, each to completion.
Ready == last.op = "idle"

\* The tokens clients hold after a login answered with toks: at most
\* MaxTokens of those issued so far (a client may drop a token).
Remember(toks) ==
    {S \in SUBSET (issued \cup toks) : Cardinality(S) <= MaxTokens}

\* A fault is an input of a request only where it can strike: a directory
\* query throws only in a login that reaches createOrUpdateUser, the token
\* library only when there is a token to verify, and the k-th query of a
\* request only when the request issued k queries (ctx.q of its end).
ReachesDirectory(email, name) ==
    email # <<>> /\ name # "" /\ CheckAccessControl(email)

CanFault(ctx, fault) ==
    \/ fault = 0
    \/ fault = -1 /\ ctx.tokenUsed # {}
    \/ fault >= 1 /\ fault <= ctx.q

(***************************************************************************)
(* The state machine.                                                      *)
(***************************************************************************)
Init ==
    /\ users = <<>>
    /\ nextId = 1
    /\ now = 0
    /\ issued = {}
    /\ last = Idle
    /\ requests = <<>>
    /\ pending = <<>>
    /\ arrivals = <<>>
    /\ client = Mounted({})

\* The exchange is over: the server takes the next request.
Complete ==
    /\ ~Ready
    /\ last' = Idle
    /\ UNCHANGED <<users, nextId, now, issued, requests, pending, arrivals,
                   client>>

Tick ==
    /\ Ready
    /\ now < MaxTime
    /\ now' = now + 1
    /\ UNCHANGED <<users, nextId, issued, last, requests, pending, arrivals,
                   client>>

SsoLogin ==
    /\ Ready
    /\ \E email \in Emails \cup {<<>>}, name \in Names \cup {""}, failAt \in 0..3 :
           LET r == SsoLoginHandler(Ctx0(NoTokenRequest, {}), users, nextId, now,
                                    email, name, "", failAt)
           IN /\ failAt = 0 \/ ReachesDirectory(email, name)
              /\ r.nextId <= MaxUsers + 1
              /\ users' = r.users
              /\ nextId' = r.nextId
              /\ issued' \in Remember(r.ctx.token)
              /\ last' = Record("sso-login",
                                [fault |-> failAt, email |-> email, name |-> name],
                                r.ctx)
              /\ UNCHANGED <<now, requests, pending, arrivals, client>>

Logout ==
    /\ Ready
    /\ last' = Record("logout", NoInput, LogoutHandler(Ctx0(NoTokenRequest, {})))
    /\ UNCHANGED <<users, nextId, now, issued, requests, pending, arrivals,
                   client>>

Me ==
    /\ Ready
    /\ \E req \in RouteRequests, fault \in (-1)..1 :
           /\ last' = Record("me", [fault |-> fault],
                             MeRoute(req, users, now, FailAt(fault), LibFault(fault)))
           /\ CanFault(last'.ctx, fault)
           /\ UNCHANGED <<users, nextId, now, issued, requests, pending, arrivals,
                          client>>

ListUsers ==
    /\ Ready
    /\ \E req \in RouteRequests, fault \in (-1)..2 :
           /\ last' = Record("users", [fault |-> fault],
                             ListUsersRoute(req, users, now, FailAt(fault),
                                            LibFault(fault)))
           /\ CanFault(last'.ctx, fault)
           /\ UNCHANGED <<users, nextId, now, issued, requests, pending, arrivals,
                          client>>

ChangeRole ==
    /\ Ready
    /\ \E req \in RouteRequests, userId \in UserIdParams, role \in BodyRoles,
          fault \in Faults :
           LET r == ChangeRoleRoute(req, users, now, userId, role, FailAt(fault),
                                    LibFault(fault))
           IN /\ CanFault(r.ctx, fault)
              /\ users' = r.users
              /\ last' = Record("role",
                                [fault |-> fault, userId |-> userId, role |-> role],
                                r.ctx)
              /\ UNCHANGED <<nextId, now, issued, requests, pending, arrivals,
                             client>>

SetActive ==
    /\ Ready
    /\ \E req \in RouteRequests, userId \in UserIdParams, active \in BOOLEAN,
          fault \in (-1)..2 :
           LET r == ActiveRoute(req, users, now, userId, active, FailAt(fault),
                                LibFault(fault))
           IN /\ CanFault(r.ctx, fault)
              /\ users' = r.users
              /\ last' = Record(IF active THEN "reactivate" ELSE "deactivate",
                                [fault |-> fault, userId |-> userId], r.ctx)
              /\ UNCHANGED <<nextId, now, issued, requests, pending, arrivals,
                             client>>

NextHttp ==
    \/ Complete
    \/ Tick
    \/ SsoLogin
    \/ Logout
    \/ Me
    \/ ListUsers
    \/ ChangeRole
    \/ SetActive

SpecHttp == Init /\ [][NextHttp]_vars

(***************************************************************************)
(* The library used by a host application: the middleware mounted on the   *)
(* host's own routes, and the directory adapter called directly.           *)
(***************************************************************************)
HeaderValues ==
    {<<>>, <<Str("Bearer"), Str("")>>, <<Str("Token"), Str("garbage")>>}
        \cup {<<Str("Bearer"), tk>> : tk \in issued \cup {Str("garbage")}}

SlotValues == {Undefined, Str(""), NonString, Str("garbage")} \cup issued

SourceRequests ==
    {Request(h, c, qy, x) :
        h \in HeaderValues, c \in SlotValues, qy \in SlotValues, x \in SlotValues}

\* req.user as a host finds it before a role gate: nothing, or a row of the
\* directory holding any of the roles updateUserRole can write to it.
AttachedUsers ==
    {{}} \cup {{[users[i] EXCEPT !.role = r]} : i \in DOMAIN users, r \in Roles}

\* app.use(authenticate, <host handler>) with a token in any of the sources
HostAuthenticate ==
    /\ Ready
    /\ \E req \in SourceRequests :
           /\ last' = Record("authenticate", [fault |-> 0],
                             Authenticate(Ctx0(req, {}), users, now, 0, FALSE))
           /\ UNCHANGED <<users, nextId, now, issued, requests, pending, arrivals,
                          client>>

\* app.use(optionalAuth, <host handler>)
HostOptionalAuth ==
    /\ Ready
    /\ \E req \in RouteRequests, fault \in (-1)..1 :
           /\ last' = Record("optionalAuth", [fault |-> fault],
                             OptionalAuth(Ctx0(req, {}), users, now, FailAt(fault),
                                          LibFault(fault)))
           /\ CanFault(last'.ctx, fault)
           /\ UNCHANGED <<users, nextId, now, issued, requests, pending, arrivals,
                          client>>

\* app.use(<host middleware>, requireAdmin, <host handler>)
HostRequireAdmin ==
    /\ Ready
    /\ \E u \in AttachedUsers :
           /\ last' = Record("requireAdmin", NoInput,
                             RequireAdmin(Ctx0(NoTokenRequest, u)))
           /\ UNCHANGED <<users, nextId, now, issued, requests, pending, arrivals,
                          client>>

\* app.use(<host middleware>, requireSuperAdmin, <host handler>)
HostRequireSuperAdmin ==
    /\ Ready
    /\ \E u \in AttachedUsers :
           /\ last' = Record("requireSuperAdmin", NoInput,
                             RequireSuperAdmin(Ctx0(NoTokenRequest, u)))
           /\ UNCHANGED <<users, nextId, now, issued, requests, pending, arrivals,
                          client>>

\* database.deactivateUser(id) / database.reactivateUser(id)
AdapterSetActive ==
    /\ Ready
    /\ \E id \in UserIds, active \in BOOLEAN :
           /\ users' = IF active
                       THEN ReactivateUser(users, NumKey(id), 1, 0).users
                       ELSE DeactivateUser(users, NumKey(id), 1, 0).users
           /\ UNCHANGED <<nextId, now, issued, last, requests, pending, arrivals,
                          client>>

\* database.deleteUser(id)
AdapterDelete ==
    /\ Ready
    /\ \E id \in UserIds :
           /\ users' = DeleteUser(users, NumKey(id), 1, 0).users
           /\ UNCHANGED <<nextId, now, issued, last, requests, pending, arrivals,
                          client>>

Next ==
    \/ Complete
    \/ Tick
    \/ SsoLogin
    \/ Logout
    \/ Me
    \/ HostOptionalAuth
    \/ HostRequireAdmin
    \/ HostRequireSuperAdmin
    \/ AdapterSetActive
    \/ AdapterDelete

Spec == Init /\ [][Next]_vars

\* GET /health
Health ==
    /\ Ready
    /\ last' = Record("health", NoInput, HealthHandler(Ctx0(NoTokenRequest, {})))
    /\ UNCHANGED <<users, nextId, now, issued, requests, pending, arrivals,
                   client>>

\* GET /config
Config ==
    /\ Ready
    /\ last' = Record("config", NoInput, ConfigHandler(Ctx0(NoTokenRequest, {})))
    /\ UNCHANGED <<users, nextId, now, issued, requests, pending, arrivals,
                   client>>

\* database.updateUserRole(id, role)
AdapterUpdateRole ==
    /\ Ready
    /\ \E id \in UserIds, role \in Roles :
           /\ users' = UpdateUserRole(users, NumKey(id), role, 1, 0).users
           /\ UNCHANGED <<nextId, now, issued, last, requests, pending, arrivals,
                          client>>

\* The HTTP surface with every route, next to a host that calls the
\* directory adapter itself (roles and active flags change under the
\* tokens already issued).  The clock stands still: no token expires.
NextGate ==
    \/ Complete
    \/ SsoLogin
    \/ Logout
    \/ Health
    \/ Config
    \/ Me
    \/ ListUsers
    \/ ChangeRole
    \/ SetActive
    \/ AdapterSetActive
    \/ AdapterUpdateRole

SpecGate == Init /\ [][NextGate]_vars

\* POST /sso-login with the whole body a client can send: email, name,
\* provider, and a role field, which the handler does not read.  The client
\* of this exchange does not keep the token it is answered.  profile is the
\* provider profile fetched for the request: none, the handler calls neither
\* exchangeCodeForTokens nor getUserInfo.
LoginNames == {"Ann", "Bob", ""}

BodyProviders == {"", "google"}

BodyExtraRoles == {"", "super_admin"}

SsoLoginBody ==
    /\ Ready
    /\ \E email \in Emails \cup {<<>>}, name \in LoginNames,
          provider \in BodyProviders, role \in BodyExtraRoles, failAt \in 0..3 :
           LET r == SsoLoginHandler(Ctx0(NoTokenRequest, {}), users, nextId, now,
                                    email, name, provider, failAt)
           IN /\ failAt = 0 \/ ReachesDirectory(email, name)
              /\ r.nextId <= MaxUsers + 1
              /\ users' = r.users
              /\ nextId' = r.nextId
              /\ issued' = issued
              /\ last' = Record("sso-login",
                                [fault |-> failAt, email |-> email, name |-> name,
                                 provider |-> provider, role |-> role,
                                 profile |-> {}],
                                r.ctx)
              /\ UNCHANGED <<now, requests, pending, arrivals, client>>

NextLogin ==
    \/ Complete
    \/ Tick
    \/ SsoLoginBody
    \/ AdapterDelete

SpecLogin == Init /\ [][NextLogin]_vars

\* The login flow on a provider callback: the code is exchanged, the
\* profile fetched, and the profile posted to /sso-login; a provider call
\* that throws ends the flow without a request.
OAuthLogin ==
    /\ Ready
    /\ \E code \in Codes, tokenUp \in BOOLEAN, graphUp \in BOOLEAN :
           LET x == ExchangeCodeForTokens(code, tokenUp)
               g == IF x.tokens = {} THEN {}
                    ELSE UNION {GetUserInfo(tk.access_token, graphUp).info :
                                    tk \in x.tokens}
               ctx0 == Ctx0(NoTokenRequest, {})
               r == IF g = {} THEN Out(ctx0, users, nextId)
                    ELSE LET p == CHOOSE i \in g : TRUE
                         IN SsoLoginHandler(ctx0, users, nextId, now, p.email,
                                            p.name, p.provider, 0)
           IN /\ r.nextId <= MaxUsers + 1
              /\ users' = r.users
              /\ nextId' = r.nextId
              /\ issued' = issued
              /\ last' = Record("oauth-login",
                                [fault |-> 0, code |-> code, profile |-> g],
                                r.ctx)
              /\ UNCHANGED <<now, requests, pending, arrivals, client>>

NextFlow ==
    \/ Complete
    \/ Tick
    \/ OAuthLogin
    \/ SsoLoginBody

SpecFlow == Init /\ [][NextFlow]_vars

\* POST /sso-login with the email written in any letter case.
CaseEmails ==
    {<<"a", "@", "x">>, <<"A", "@", "x">>, <<"a", "@", "X">>, <<"b", "@", "x">>}

SsoLoginAnyCase ==
    /\ Ready
    /\ \E email \in CaseEmails, name \in {"Ann", "Bob"} :
           LET r == SsoLoginHandler(Ctx0(NoTokenRequest, {}), users, nextId, now,
                                    email, name, "", 0)
           IN /\ r.nextId <= MaxUsers + 1
              /\ users' = r.users
              /\ nextId' = r.nextId
              /\ issued' = issued
              /\ last' = Record("sso-login",
                                [fault |-> 0, email |-> email, name |-> name],
                                r.ctx)
              /\ UNCHANGED <<now, requests, pending, arrivals, client>>

NextCase ==
    \/ Complete
    \/ Tick
    \/ SsoLoginAnyCase

SpecCase == Init /\ [][NextCase]_vars

\* <ProtectedRoute requiredRole=...> rendered under any context value: the
\* user as /me returns it (its role is one the directory can hold), the
\* token null, empty or set, and the loading flag.
ClientUsers ==
    {{}} \cup {{[id |-> 1, name |-> n, role |-> r]} : n \in {"Ann", "Bob"},
                                                     r \in Roles}

ClientTokens == {{}, {""}, {"t"}}

RequiredRoles == {{}} \cup {{r} : r \in Roles}

Render ==
    /\ Ready
    /\ \E isLoading \in BOOLEAN, user \in ClientUsers, token \in ClientTokens,
          requiredRole \in RequiredRoles :
           /\ last' = Record("ProtectedRoute",
                             [fault |-> 0, isLoading |-> isLoading, user |-> user,
                              token |-> token, requiredRole |-> requiredRole],
                             Ctx0(NoTokenRequest, {}))
                          @@ [result |-> ProtectedRoute(isLoading, user, token,
                                                        requiredRole)]
           /\ UNCHANGED <<users, nextId, now, issued, requests, pending, arrivals,
                          client>>

NextClient ==
    \/ Complete
    \/ Render

SpecClient == Init /\ [][NextClient]_vars

\* The identities of role super_admin in a table.
SuperAdmins(us) == {i \in DOMAIN us : us[i].role = "super_admin"}

\* Requests in flight at once.
MaxInFlight == 2

Procs == 1..MaxInFlight

InFlight(p) == p \in DOMAIN pending /\ pending[p].pc # "done"

\* A step of a role-change request: a request arrives and runs to its first
\* directory call, or a request in flight runs on to its next one.  Each
\* process sends one request, a demotion bearing a token issued by a login,
\* while the directory holds exactly two super_admins.
RoleRequestStep ==
    /\ Ready
    /\ \E p \in Procs :
           \E proc \in (IF p \in DOMAIN pending
                        THEN {pr \in {pending[p]} : pr.pc # "done"}
                        ELSE {RoleProc(BearerRequest(tk), IdToString(id), "user",
                                       users) :
                                  tk \in issued,
                                  id \in {i \in DOMAIN users :
                                             Cardinality(SuperAdmins(users)) = 2}}) :
               LET r == RoleStep(proc, users, now)
               IN /\ users' = r.users
                  /\ pending' = MapSet(pending, p, r.proc)
                  /\ UNCHANGED <<nextId, now, issued, last, requests, arrivals,
                                 client>>

\* Role changes over HTTP running concurrently, next to a host that sets
\* roles through the adapter.
NextRoleRace ==
    \/ Complete
    \/ SsoLogin
    \/ AdapterUpdateRole
    \/ RoleRequestStep

SpecRoleRace == Init /\ [][NextRoleRace]_vars

\* The bodies of the concurrent logins: two emails, and one without a name.
RaceEmails == {<<"a", "@", "x">>, <<"b", "@", "x">>}

RaceNames == {"Ann", ""}

\* A step of a login: a request arrives and runs to its lookup, or a request
\* in flight runs on to its next query.  A process whose request was
\* answered may send another; the answer and its token stay with the process.
LoginRequestStep ==
    /\ Ready
    /\ \E p \in Procs :
           \E proc \in (IF InFlight(p)
                        THEN {pending[p]}
                        ELSE {LoginProc(email, name, users) :
                                  email \in RaceEmails, name \in RaceNames}) :
               LET r == LoginStep(proc, users, nextId, now)
               IN /\ r.nextId <= MaxUsers + 1
                  /\ users' = r.users
                  /\ nextId' = r.nextId
                  /\ pending' = MapSet(pending, p, r.proc)
                  /\ UNCHANGED <<now, issued, last, requests, arrivals,
                                 client>>

\* Logins running concurrently while time passes.
NextLoginRace ==
    \/ Tick
    \/ LoginRequestStep

SpecLoginRace == Init /\ [][NextLoginRace]_vars

\* A step of a suspension: a host deactivates an identity no other host has
\* suspended, or reactivates the one it deactivated.  A host whose
\* suspension is over may start another.
SuspendRequestStep ==
    /\ Ready
    /\ \E p \in Procs :
           \E proc \in (IF p \in DOMAIN pending /\ pending[p].pc = "deactivated"
                        THEN {pending[p]}
                        ELSE {SuspendProc(id) :
                                  id \in {i \in UserIds :
                                             \A q \in DOMAIN pending \ {p} :
                                                 pending[q].userId # i}}) :
               LET r == SuspendStep(proc, users)
               IN /\ users' = r.users
                  /\ pending' = MapSet(pending, p, r.proc)
                  /\ UNCHANGED <<nextId, now, issued, last, requests, arrivals,
                                 client>>

\* Logins and authenticated requests while hosts suspend identities.
NextSuspend ==
    \/ Complete
    \/ Tick
    \/ SsoLogin
    \/ Me
    \/ HostOptionalAuth
    \/ SuspendRequestStep

SpecSuspend == Init /\ [][NextSuspend]_vars

\* POST /logout as a client sends it, with or without its token.
LogoutBearing ==
    /\ Ready
    /\ \E req \in RouteRequests :
           LET r == LogoutRoute(req, users, nextId)
           IN /\ users' = r.users
              /\ nextId' = r.nextId
              /\ last' = Record("logout", NoInput, r.ctx)
              /\ UNCHANGED <<now, issued, requests, pending, arrivals, client>>

\* Logins, logouts and authenticated requests as time passes.
NextLogout ==
    \/ Complete
    \/ Tick
    \/ SsoLogin
    \/ Me
    \/ LogoutBearing
    \/ AdapterSetActive

SpecLogout == Init /\ [][NextLogout]_vars

\* POST /sso-login with a complete body that also names a provider and a
\* role; the lookup or the write may throw.
Relogin ==
    /\ Ready
    /\ \E email \in Emails, name \in LoginNames \ {""},
          provider \in BodyProviders, role \in BodyExtraRoles, failAt \in 0..2 :
           LET r == SsoLoginHandler(Ctx0(NoTokenRequest, {}), users, nextId, now,
                                    email, name, provider, failAt)
           IN /\ failAt = 0 \/ ReachesDirectory(email, name)
              /\ r.nextId <= MaxUsers + 1
              /\ users' = r.users
              /\ nextId' = r.nextId
              /\ last' = Record("sso-login",
                                [fault |-> failAt, email |-> email, name |-> name,
                                 provider |-> provider, role |-> role],
                                r.ctx)
              /\ UNCHANGED <<now, issued, requests, pending, arrivals, client>>

\* Logins next to a host that deactivates and reactivates.
NextRelogin ==
    \/ Complete
    \/ Tick
    \/ Relogin
    \/ AdapterSetActive

SpecRelogin == Init /\ [][NextRelogin]_vars

\* What fetch(/me) delivers: an ok response with the user, or a response
\* that is not ok or a fetch that threw (ok = FALSE).
MeResponses ==
    {[ok |-> TRUE, user |-> u] : u \in ClientUsers \ {{}}}
        \cup {[ok |-> FALSE, user |-> {}]}

\* The page loads with any item under auth_token; the fetches of the page
\* before are gone.  The verification, if any, is process 0.
ClientMount ==
    \E stored \in ClientTokens :
        /\ client' = Mounted(stored)
        /\ pending' = IF TokenSet(stored)
                      THEN MapSet(<<>>, 0, VerifyProc(stored)) ELSE <<>>
        /\ UNCHANGED <<users, nextId, now, issued, last, requests, arrivals>>

\* The response of /me arrives.
VerifyResponse ==
    \E p \in DOMAIN pending, resp \in MeResponses :
        /\ pending[p].op = "verifyToken" /\ pending[p].pc = "fetch"
        /\ client' = VerifyEnd(client, resp.ok, resp.user)
        /\ pending' = [pending EXCEPT ![p].pc = "done"]
        /\ UNCHANGED <<users, nextId, now, issued, last, requests, arrivals>>

\* The application calls logout(): the fetch of /logout starts.
LogoutCall ==
    \E p \in Procs :
        /\ ~InFlight(p)
        /\ pending' = MapSet(pending, p, LogoutProc(client.token))
        /\ UNCHANGED <<users, nextId, now, issued, last, requests, arrivals,
                       client>>

\* The fetch of /logout ends, with a response or an error.
LogoutResponse ==
    \E p \in DOMAIN pending :
        /\ pending[p].op = "logout" /\ pending[p].pc = "fetch"
        /\ client' = LogoutEnd(client)
        /\ pending' = [pending EXCEPT ![p].pc = "done"]
        /\ UNCHANGED <<users, nextId, now, issued, last, requests, arrivals>>

NextSession ==
    \/ ClientMount
    \/ VerifyResponse
    \/ LogoutCall
    \/ LogoutResponse

SpecSession == Init /\ [][NextSession]_vars

\* Client addresses (req.ip); "" is a request without one.
Ips == {"ip1", "ip2", ""}

\* app.use(rateLimit(MaxRequests, WindowMs), <host handler>)
HostRateLimit ==
    /\ Ready
    /\ \E ip \in Ips :
           LET r == RateLimit(Ctx0(NoTokenRequest, {}), requests, ip, now)
           IN /\ requests' = r.requests
              /\ last' = Record("rateLimit", [fault |-> 0, ip |-> ip], r.ctx)
                             @@ [limiter |-> requests,
                                 retryAfter |-> r.retryAfter]
              /\ UNCHANGED <<users, nextId, now, issued, pending, arrivals,
                             client>>

NextLimiter ==
    \/ Complete
    \/ Tick
    \/ HostRateLimit

SpecLimiter == Init /\ [][NextLimiter]_vars

\* A request to the router of createAuthRoutes, all within one window of
\* the limiter (the clock stands still); arrivals counts the requests the
\* router received from each client, up to MaxArrivals.
MaxArrivals == 4

RouterPaths == {"sso-login", "logout", "no-such-route"}

Arrived(id) == IF id \in DOMAIN arrivals THEN arrivals[id] ELSE 0

RouterRequest ==
    /\ Ready
    /\ \E ip \in Ips, path \in RouterPaths, email \in {<<"a", "@", "x">>, <<>>} :
           LET r == RouterHandle(path, ip, users, nextId, requests, now, email,
                                 "Ann")
               id == Identifier(ip)
           IN /\ Arrived(id) < MaxArrivals
              /\ path # "sso-login" => email = <<>>
              /\ r.nextId <= MaxUsers + 1
              /\ users' = r.users
              /\ nextId' = r.nextId
              /\ requests' = r.requests
              /\ arrivals' = MapSet(arrivals, id, Arrived(id) + 1)
              /\ last' = Record("router",
                                [fault |-> 0, ip |-> ip, path |-> path,
                                 email |-> email],
                                r.ctx)
              /\ UNCHANGED <<now, issued, pending, client>>

NextRouter ==
    \/ Complete
    \/ RouterRequest

SpecRouter == Init /\ [][NextRouter]_vars

\* Concurrent requests through app.use(rateLimit(...), <async host
\* handler>): the middleware has no await, so a request passes it in one
\* step (read, comparison, increment); the handler it admits finishes in a
\* later step, with other requests arriving in between.  Each process sends
\* one request, all within one window.
LimiterProcs == 1..(MaxInFlight + 1)

LimitedArrive ==
    /\ Ready
    /\ \E p \in LimiterProcs \ DOMAIN pending, ip \in Ips :
           LET r == RateLimit(Ctx0(NoTokenRequest, {}), requests, ip, now)
           IN /\ requests' = r.requests
              /\ pending' = MapSet(pending, p,
                                   [op |-> "limited", ip |-> ip, ctx |-> r.ctx,
                                    pc |-> IF Continued(r.ctx, "rateLimit")
                                           THEN "handler" ELSE "done"])
              /\ UNCHANGED <<users, nextId, now, issued, last, arrivals,
                             client>>

LimitedHandle ==
    /\ Ready
    /\ \E p \in DOMAIN pending :
           /\ pending[p].op = "limited"
           /\ pending[p].pc = "handler"
           /\ pending' = [pending EXCEPT
                              ![p].pc = "done",
                              ![p].ctx = Respond(Enter(@, "handler"), 200, "")]
           /\ UNCHANGED <<users, nextId, now, issued, last, requests, arrivals,
                          client>>

NextLimiterRace ==
    \/ LimitedArrive
    \/ LimitedHandle

SpecLimiterRace == Init /\ [][NextLimiterRace]_vars

\* checkAccessControl called on a service built with any allow-lists and
\* any email: the entries of the lists and the email are strings over
\* EmailChars, in any letter case.
EmailChars == {"a", "A", "x", "X", "@"}

MaxEmailLen == 4

ProbeEmails == UNION {[1..n -> EmailChars] : n \in 0..MaxEmailLen}

DomainLists == SUBSET {<<"x">>, <<"X">>, <<"x", "@", "a">>}

EmailLists == SUBSET {<<"a", "@", "a">>, <<"A", "@", "a">>}

CheckAccess ==
    /\ Ready
    /\ \E allowedDomains \in DomainLists, allowedEmails \in EmailLists,
          email \in ProbeEmails :
           /\ last' = Record("checkAccessControl",
                             [fault |-> 0, allowedDomains |-> allowedDomains,
                              allowedEmails |-> allowedEmails, email |-> email],
                             Ctx0(NoTokenRequest, {}))
                          @@ [result |-> CheckAccessControlIn(allowedDomains,
                                                              allowedEmails,
                                                              email)]
           /\ UNCHANGED <<users, nextId, now, issued, requests, pending, arrivals,
                          client>>

NextAccess ==
    \/ Complete
    \/ CheckAccess

SpecAccess == Init /\ [][NextAccess]_vars

\* generateToken then verifyToken on a service built with any expiresIn
\* option, for any identity, issue time and verification time; the token
\* presented is the one issued or the same with a signature that does not
\* verify.
ExpiresInOptions == {NotSet, Seconds(1), Seconds(2), Span("7d"), Span("1h")}

ProbeIdentities ==
    {[id |-> i, email |-> e, role |-> r] :
        i \in 1..MaxUsers, e \in {<<"a", "@", "x">>, <<"b", "@", "x">>},
        r \in Roles}

\* Verification times after the issue: around the issue and around the
\* expiry.
Delays(expiresIn) ==
    {d \in {0, 1, Timespan(expiresIn) - 1, Timespan(expiresIn),
            Timespan(expiresIn) + 1} : d >= 0}

TokenRoundTrip ==
    /\ Ready
    /\ \E user \in ProbeIdentities, option \in ExpiresInOptions,
          iat \in 0..MaxTime, forged \in BOOLEAN :
           LET expiresIn == JWTServiceExpiresIn(option)
               tok == GenerateTokenWith(user, iat, expiresIn)
           IN \E delay \in Delays(expiresIn) :
                  /\ last' = Record("verifyToken",
                                    [fault |-> 0, user |-> user,
                                     option |-> option, iat |-> iat,
                                     at |-> iat + delay, forged |-> forged,
                                     token |-> IF forged THEN Tamper(tok) ELSE tok],
                                    Ctx0(NoTokenRequest, {}))
                                 @@ [result |->
                                         VerifyToken(IF forged THEN Tamper(tok)
                                                     ELSE tok,
                                                     iat + delay, FALSE)]
                  /\ UNCHANGED <<users, nextId, now, issued, requests, pending, arrivals,
                                 client>>

NextToken ==
    \/ Complete
    \/ TokenRoundTrip

SpecToken == Init /\ [][NextToken]_vars

\* extractTokenFromHeader called with any Authorization header: absent, or
\* a string of at most MaxHeaderLen words and spaces.
HeaderWords == {"Bearer", "bearer", "Token", "abc", " "}

MaxHeaderLen == 4

RawHeaders ==
    {{}} \cup {{h} : h \in UNION {[1..n -> HeaderWords] : n \in 0..MaxHeaderLen}}

HeaderProbe ==
    /\ Ready
    /\ \E raw \in RawHeaders :
           /\ last' = Record("extractTokenFromHeader",
                             [fault |-> 0, header |-> raw],
                             Ctx0(NoTokenRequest, {}))
                          @@ [result |-> ExtractTokenFromHeader(HeaderParts(raw))]
           /\ UNCHANGED <<users, nextId, now, issued, requests, pending, arrivals,
                          client>>

NextHeader ==
    \/ Complete
    \/ HeaderProbe

SpecHeader == Init /\ [][NextHeader]_vars

NextSources ==
    \/ Complete
    \/ Tick
    \/ SsoLogin
    \/ HostAuthenticate

SpecSources == Init /\ [][NextSources]_vars

(***************************************************************************)
(* Properties.                                                             *)
(***************************************************************************)
\* The operations whose first stage is authenticate.
AuthOps == {"me", "users", "role", "deactivate", "reactivate", "authenticate"}

WellSigned(tk) == tk.kind = "jwt" /\ tk.sig = "good"

Unexpired(tk) == now < tk.exp

Count(seq, e) == Cardinality({i \in 1..Len(seq) : seq[i] = e})

\* The request was answered with this response and stopped there.
Denied(code, error) ==
    /\ last.ctx.status = code
    /\ last.ctx.error = error
    /\ last.ctx.sent = 1
    /\ last.ctx.conts = <<>>
    /\ last.ctx.user = {}

\* The token of the request is valid and names an identity of the directory.
ValidFor(tk) ==
    /\ last.op \in AuthOps
    /\ last.in.fault = 0
    /\ WellSigned(tk)
    /\ Unexpired(tk)
    /\ tk.userId \in DOMAIN last.pre

\* C1: a request whose first-found token is validly signed and unexpired and
\* names an identity that exists and is active in the directory gets the
\* identity attached and its continuation invoked exactly once, and
\* authenticate sends no response.
C1_ActiveIdentityPasses ==
    \A tk \in last.ctx.tokenUsed :
        (ValidFor(tk) /\ last.pre[tk.userId].is_active)
            => /\ last.ctx.user = {last.pre[tk.userId]}
               /\ Count(last.ctx.conts, "authenticate") = 1
               /\ (last.ctx.sent = 0 \/ Ran(last.ctx, "handler"))

\* C2: a valid, unexpired token of an identity that exists but is inactive
\* is answered 403, no identity is attached and the continuation is not
\* invoked.
C2_InactiveIs403 ==
    \A tk \in last.ctx.tokenUsed :
        (ValidFor(tk) /\ ~last.pre[tk.userId].is_active)
            => Denied(403, "User account is deactivated")

C2_Witness ==
    \E tk \in last.ctx.tokenUsed :
        /\ ValidFor(tk)
        /\ ~last.pre[tk.userId].is_active
        /\ last.ctx.status = 403

\* C3: authenticate answers each failure with one fixed response and stops:
\* no token 401, expired 401 'Token has expired', invalid 401 'Invalid
\* token', a valid token of no identity 401, any other error 500; the
\* continuation is not invoked and no identity is attached.
C3_FailureResponses ==
    last.op \in AuthOps =>
        /\ last.ctx.tokenUsed = {}
               => Denied(401, "No authentication token provided")
        /\ \A tk \in last.ctx.tokenUsed :
               /\ last.in.fault = -1 => Denied(500, "Authentication failed")
               /\ (last.in.fault # -1 /\ ~WellSigned(tk))
                      => Denied(401, "Invalid token")
               /\ (last.in.fault # -1 /\ WellSigned(tk) /\ ~Unexpired(tk))
                      => Denied(401, "Token has expired")
               /\ (last.in.fault = 0 /\ WellSigned(tk) /\ Unexpired(tk)
                       /\ tk.userId \notin DOMAIN last.pre)
                      => Denied(401, "User not found")

C3_Witness ==
    /\ last.op = "me"
    /\ \E tk \in last.ctx.tokenUsed :
           /\ last.in.fault = 0
           /\ WellSigned(tk)
           /\ Unexpired(tk)
           /\ tk.userId \notin DOMAIN last.pre
    /\ last.ctx.status = 401

\* The order of the token sources, and what each of them yields for a
\* request (nothing, or a token).
SourceOrder == <<"authorization", "cookie", "query", "x-auth-token">>

SourceYield(req, k) ==
    IF k = 1
    THEN IF /\ Len(req.authorization) = 2
            /\ req.authorization[1] = Str("Bearer")
            /\ req.authorization[2] # Str("")
         THEN {req.authorization[2]}
         ELSE {}
    ELSE IF k = 2
    THEN IF req.cookie \notin {Undefined, Str("")} THEN {req.cookie} ELSE {}
    ELSE IF k = 3
    THEN IF IsString(req.query) /\ req.query # Str("") THEN {req.query} ELSE {}
    ELSE IF IsString(req.xAuthToken) /\ req.xAuthToken # Str("")
    THEN {req.xAuthToken}
    ELSE {}

FirstSource(req) ==
    IF \E k \in 1..4 : SourceYield(req, k) # {}
    THEN CHOOSE k \in 1..4 :
             /\ SourceYield(req, k) # {}
             /\ \A j \in 1..(k - 1) : SourceYield(req, j) = {}
    ELSE 0

\* C4: the sources are read in the order Authorization header, cookie,
\* query parameter, x-auth-token header, up to the first that yields a
\* token and no further; that token is the one used, also when it then
\* fails verification.
C4_FirstSourceWins ==
    last.op = "authenticate" =>
        LET f == FirstSource(last.ctx.req)
        IN /\ last.ctx.consulted = SubSeq(SourceOrder, 1, IF f = 0 THEN 4 ELSE f)
           /\ last.ctx.tokenUsed =
                  (IF f = 0 THEN {} ELSE SourceYield(last.ctx.req, f))
           /\ \A tk \in last.ctx.tokenUsed :
                  ~(WellSigned(tk) /\ Unexpired(tk))
                      => last.ctx.status = 401 /\ last.ctx.conts = <<>>

C4_Witness ==
    /\ last.op = "authenticate"
    /\ last.ctx.consulted = <<"authorization", "cookie">>
    /\ last.ctx.tokenUsed = {Str("garbage")}
    /\ WellSigned(last.ctx.req.query)
    /\ Unexpired(last.ctx.req.query)
    /\ last.ctx.status = 401

\* C5: requireAdmin invokes the continuation iff an identity is attached and
\* its role is admin or super_admin; role user is answered 403, no identity
\* 401; it either answers or continues, never both and never neither.
C5_RequireAdmin ==
    last.op = "requireAdmin" =>
        /\ Continued(last.ctx, "requireAdmin")
               <=> \E u \in last.ctx.user : u.role \in {"admin", "super_admin"}
        /\ \A u \in last.ctx.user : u.role = "user" => last.ctx.status = 403
        /\ last.ctx.user = {} => last.ctx.status = 401
        /\ last.ctx.sent + Len(last.ctx.conts) = 1

C5_Witness ==
    /\ last.op = "requireAdmin"
    /\ \E u \in last.ctx.user : u.role = "admin"
    /\ last.ctx.conts = <<"requireAdmin">>
    /\ last.ctx.sent = 0

\* C6: requireSuperAdmin invokes the continuation iff the attached identity's
\* role is super_admin; roles admin and user are answered 403, no identity
\* 401.
C6_RequireSuperAdmin ==
    last.op = "requireSuperAdmin" =>
        /\ Continued(last.ctx, "requireSuperAdmin")
               <=> \E u \in last.ctx.user : u.role = "super_admin"
        /\ \A u \in last.ctx.user :
               u.role \in {"admin", "user"}
                   => last.ctx.status = 403 /\ last.ctx.sent = 1
        /\ last.ctx.user = {} => last.ctx.status = 401 /\ last.ctx.sent = 1
        /\ last.ctx.sent + Len(last.ctx.conts) = 1

C6_Witness ==
    /\ last.op = "requireSuperAdmin"
    /\ \E u \in last.ctx.user : u.role = "admin"
    /\ last.ctx.status = 403
    /\ last.ctx.conts = <<>>

\* C7: optionalAuth invokes the continuation exactly once and sends no
\* response, whatever the request; an identity is attached only when the
\* token verifies and names an identity that exists and is active, and every
\* failure leaves the request without an identity.
C7_OptionalAuth ==
    last.op = "optionalAuth" =>
        /\ last.ctx.conts = <<"optionalAuth">>
        /\ last.ctx.sent = 0
        /\ last.ctx.status = 0
        /\ last.ctx.user # {}
               => \E tk \in last.ctx.tokenUsed :
                      /\ ValidFor(tk)
                      /\ last.pre[tk.userId].is_active
                      /\ last.ctx.user = {last.pre[tk.userId]}
        /\ ( \/ last.ctx.tokenUsed = {}
             \/ last.in.fault # 0
             \/ \E tk \in last.ctx.tokenUsed :
                    \/ ~WellSigned(tk)
                    \/ ~Unexpired(tk)
                    \/ tk.userId \notin DOMAIN last.pre
                    \/ ~last.pre[tk.userId].is_active )
               => last.ctx.user = {}

C7_Witness ==
    /\ last.op = "optionalAuth"
    /\ last.ctx.tokenUsed = {Str("garbage")}
    /\ last.ctx.conts = <<"optionalAuth">>
    /\ last.ctx.user = {}

\* The stages of a gated route, in order.
GatedOps == {"users", "role", "deactivate", "reactivate"}

Chain(op) ==
    <<"authenticate",
      IF op \in {"users", "role"} THEN "requireSuperAdmin" ELSE "requireAdmin",
      "handler">>

\* C8: in a chain authenticate, role gate, handler, every request ends with
\* exactly one response; the stages that ran are a prefix of the chain, each
\* of them but the last invoked its continuation, and the last one answered.
C8_ChainStopsAtFailure ==
    last.op \in GatedOps =>
        /\ last.ctx.sent = 1
        /\ \E k \in 1..3 :
               /\ last.ctx.stages = SubSeq(Chain(last.op), 1, k)
               /\ last.ctx.conts = SubSeq(Chain(last.op), 1, k - 1)

C8_Witness ==
    /\ last.op = "role"
    /\ \E tk \in last.ctx.tokenUsed :
           ValidFor(tk) /\ last.pre[tk.userId].role = "super_admin"
    /\ last.ctx.stages = <<"authenticate">>
    /\ last.ctx.conts = <<>>
    /\ last.ctx.sent = 1

\* C9: once an identity exists, the directory holds an identity of role
\* super_admin in every state reached by requests to the HTTP surface.
C9_SuperAdminExists == DOMAIN users # {} => SuperAdmins(users) # {}

C9_Witness ==
    /\ last.op = "role"
    /\ last.in.role \in {"user", "admin"}
    /\ Cardinality(DOMAIN last.pre) = 2
    /\ \E tk \in last.ctx.tokenUsed :
           /\ ValidFor(tk)
           /\ SuperAdmins(last.pre) = {tk.userId}
           /\ last.in.userId = IdToString(tk.userId)
    /\ SuperAdmins(users) # {}

\* C10: a role change to user or admin that targets the only super_admin,
\* sent by that super_admin with a valid token, is rejected with 400 'Cannot
\* remove the last super admin' and changes nothing in the directory.
C10_LastSuperAdminIs400 ==
    \A tk \in last.ctx.tokenUsed :
        ( /\ last.op = "role"
          /\ ValidFor(tk)
          /\ last.pre[tk.userId].is_active
          /\ SuperAdmins(last.pre) = {tk.userId}
          /\ last.in.userId = IdToString(tk.userId)
          /\ last.in.role \in {"user", "admin"} )
            => /\ last.ctx.status = 400
               /\ last.ctx.error = "Cannot remove the last super admin"
               /\ users = last.pre

\* C11: an identity created by a login on an empty directory has role
\* super_admin; an identity created while the directory holds at least one
\* identity has role user, whatever role the request body names.
C11_FirstIsSuperAdmin ==
    last.op = "sso-login" =>
        \A i \in DOMAIN users \ DOMAIN last.pre :
            users[i].role =
                (IF DOMAIN last.pre = {} THEN "super_admin" ELSE "user")

C11_Witness ==
    /\ last.op = "sso-login"
    /\ last.in.role = "super_admin"
    /\ DOMAIN last.pre # {}
    /\ \E i \in DOMAIN users \ DOMAIN last.pre : users[i].role = "user"

\* C12: a login answered 400 (missing email or name) or 403 (email denied
\* by the access-control policy) leaves the directory as it was, rows, names
\* and last-login stamps included, and returns no token.
C12_RejectedLoginChangesNothing ==
    (last.op = "sso-login" /\ last.ctx.status \in {400, 403}) =>
        /\ users = last.pre
        /\ last.ctx.token = {}

C12_Witness ==
    /\ last.op = "sso-login"
    /\ last.ctx.status = 400
    /\ last.in.name = ""
    /\ \E i \in DOMAIN last.pre :
           /\ last.pre[i].email = last.in.email
           /\ last.pre[i].last_login < now
           /\ users[i] = last.pre[i]

\* C13: a session token is issued only in an exchange in which the provider
\* code was exchanged and the provider profile fetched, and the token's
\* email is the email of that profile.
C13_TokenOnlyForVerifiedEmail ==
    \A tk \in last.ctx.token : \E p \in last.in.profile : p.email = tk.email

\* The request was admitted by the limiter: it continued and was not answered.
Admitted == last.ctx.conts = <<"rateLimit">> /\ last.ctx.sent = 0

\* The request was answered 429 and did not continue.
Limited == last.ctx.status = 429 /\ last.ctx.sent = 1 /\ last.ctx.conts = <<>>

\* C14: per client address, a request that finds no window, or a window
\* whose windowMs has elapsed (now >= reset deadline), starts a window and is
\* admitted; a request before the deadline is admitted while fewer than
\* maxRequests were admitted in the window, and is otherwise answered 429
\* with a positive retryAfter, the seconds until the deadline.
C14_RateLimitWindow ==
    last.op = "rateLimit" =>
        LET id == Identifier(last.in.ip)
            t == DateNow(now)
            pre == last.limiter
        IN IF id \notin DOMAIN pre \/ t >= pre[id].resetTime
           THEN /\ Admitted
                /\ requests[id] = [count |-> 1, resetTime |-> t + WindowMs]
           ELSE IF pre[id].count < MaxRequests
           THEN /\ Admitted
                /\ requests[id] = [pre[id] EXCEPT !.count = @ + 1]
           ELSE /\ Limited
                /\ last.retryAfter > 0
                /\ last.retryAfter * 1000 >= pre[id].resetTime - t
                /\ (last.retryAfter - 1) * 1000 < pre[id].resetTime - t

\* Letter case removed from a string and from every entry of a list.
Fold(str) == [i \in 1..Len(str) |-> ToLowerChar(str[i])]

FoldAll(list) == {Fold(e) : e \in list}

HasAt(str) == \E i \in 1..Len(str) : str[i] = "@"

\* The whole substring after the first '@' of a string that has one.
AfterFirstAt(str) ==
    LET k == CHOOSE i \in 1..Len(str) :
                 str[i] = "@" /\ \A j \in 1..(i - 1) : str[j] # "@"
    IN SubSeq(str, k + 1, Len(str))

\* C15: with both lists empty every email is permitted; otherwise an email
\* is permitted iff its domain is in allowedDomains or the email is in
\* allowedEmails (letter case apart).
C15_AllowListRule ==
    last.op = "checkAccessControl" =>
        LET domains == last.in.allowedDomains
            emails == last.in.allowedEmails
            email == last.in.email
        IN last.result <=>
               \/ domains = {} /\ emails = {}
               \/ Fold(email) \in FoldAll(emails)
               \/ HasAt(email) /\ AfterFirstAt(Fold(email)) \in FoldAll(domains)

\* C16: the result does not depend on the letter case of the email, of the
\* allowedDomains entries or of the allowedEmails entries: it equals the
\* result for the same inputs written in lower case.
C16_CaseInsensitive ==
    last.op = "checkAccessControl" =>
        last.result = CheckAccessControlIn(FoldAll(last.in.allowedDomains),
                                           FoldAll(last.in.allowedEmails),
                                           Fold(last.in.email))

\* C17: with lists written in lower case and no email allow-list, an email
\* is permitted iff it has an '@' and the whole substring after its first
\* '@' is in allowedDomains; an email without '@' is permitted only through
\* allowedEmails or when both lists are empty.
C17_DomainAfterFirstAt ==
    ( /\ last.op = "checkAccessControl"
      /\ last.in.allowedDomains = FoldAll(last.in.allowedDomains)
      /\ last.in.allowedEmails = FoldAll(last.in.allowedEmails) ) =>
        /\ (last.in.allowedEmails = {} /\ last.in.allowedDomains # {})
               => (last.result <=>
                       /\ HasAt(last.in.email)
                       /\ AfterFirstAt(Fold(last.in.email))
                              \in last.in.allowedDomains)
        /\ ~HasAt(last.in.email)
               => (last.result <=>
                       \/ last.in.allowedDomains = {}
                              /\ last.in.allowedEmails = {}
                       \/ Fold(last.in.email) \in last.in.allowedEmails)

\* The expiry duration an option configures, in seconds.
Duration(option) ==
    IF option.kind = "undefined" THEN 7 * 86400
    ELSE IF option.kind = "number" THEN option.n
    ELSE IF option.span = "7d" THEN 604800
    ELSE 3600

\* C18: the token generated for an identity, verified before its expiry,
\* yields claims whose userId, email and role are the identity's and whose
\* exp is iat plus the configured duration (7 days when none is configured).
C18_RoundTrip ==
    ( /\ last.op = "verifyToken"
      /\ ~last.in.forged
      /\ last.in.at < last.in.iat + Duration(last.in.option) ) =>
        /\ last.result.err = ""
        /\ last.result.payload.userId = last.in.user.id
        /\ last.result.payload.email = last.in.user.email
        /\ last.result.payload.role = last.in.user.role
        /\ last.result.payload.iat = last.in.iat
        /\ last.result.payload.exp = last.in.iat + Duration(last.in.option)

C18_Witness ==
    /\ last.op = "verifyToken"
    /\ ~last.in.forged
    /\ last.in.option = NotSet
    /\ last.in.at = last.in.iat + 604799
    /\ last.result.err = ""
    /\ last.result.payload.role = "admin"

\* C19 as stated: any token with exp <= now fails with 'Token has expired'
\* and with no other error; a token with exp > now is never rejected as
\* expired.
C19_ExpiredAnyToken ==
    last.op = "verifyToken" =>
        /\ last.in.token.exp <= last.in.at
               => last.result.err = "Token has expired"
        /\ last.in.token.exp > last.in.at
               => last.result.err # "Token has expired"

\* C19 amended: a validly signed token with exp <= now (exp = now included)
\* fails with 'Token has expired' and with no other error; a token with
\* exp > now is never rejected as expired; a token whose signature does not
\* verify fails with 'Invalid token' whatever its exp.
C19_ExpiredWellSigned ==
    last.op = "verifyToken" =>
        /\ (WellSigned(last.in.token) /\ last.in.token.exp <= last.in.at)
               => last.result.err = "Token has expired"
        /\ last.in.token.exp > last.in.at
               => last.result.err # "Token has expired"
        /\ ~WellSigned(last.in.token) => last.result.err = "Invalid token"

C19_Witness ==
    /\ last.op = "verifyToken"
    /\ WellSigned(last.in.token)
    /\ last.in.token.exp = last.in.at
    /\ last.result.err = "Token has expired"

\* The header is 'Bearer', one space, and a token that is not empty and has
\* no space.
BearerForm(h) ==
    /\ Len(h) >= 3
    /\ h[1] = "Bearer"
    /\ h[2] = " "
    /\ \A i \in 3..Len(h) : h[i] # " "

\* C20: extractTokenFromHeader returns the token for a header of the exact
\* form 'Bearer <token>' and none for an absent header and for every other
\* shape.
C20_BearerOnly ==
    last.op = "extractTokenFromHeader" =>
        /\ last.in.header = {} => last.result = {}
        /\ \A h \in last.in.header :
               last.result =
                   (IF BearerForm(h) THEN {Str(Join(SubSeq(h, 3, Len(h))))}
                    ELSE {})

\* The token the request used is validly signed, unexpired, and names an
\* identity of the directory that is active and holds one of the roles.
AuthenticatedAs(roles) ==
    \E tk \in last.ctx.tokenUsed :
        /\ WellSigned(tk)
        /\ Unexpired(tk)
        /\ tk.userId \in DOMAIN last.pre
        /\ last.pre[tk.userId].is_active
        /\ last.pre[tk.userId].role \in roles

\* C21: the handlers of GET /users and PUT /users/:id/role run only for a
\* request authenticated as an active identity whose current role is
\* super_admin, those of deactivate and reactivate only for an active admin
\* or super_admin, that of GET /me only for an authenticated active
\* identity; /health, /config, /sso-login and /logout run their handler
\* first, for a request without any token.
C21_RouteGating ==
    /\ (last.op \in {"users", "role"} /\ Ran(last.ctx, "handler"))
           => AuthenticatedAs({"super_admin"})
    /\ (last.op \in {"deactivate", "reactivate"} /\ Ran(last.ctx, "handler"))
           => AuthenticatedAs({"admin", "super_admin"})
    /\ (last.op = "me" /\ Ran(last.ctx, "handler")) => AuthenticatedAs(Roles)
    /\ last.op \in {"health", "config", "sso-login", "logout"}
           => /\ last.ctx.stages = <<"handler">>
              /\ last.ctx.req = NoTokenRequest
              /\ last.ctx.tokenUsed = {}

\* A deactivate request bearing the valid token of an active identity whose
\* role was lowered to user after the token was issued to a super_admin.
C21_Witness ==
    /\ last.op = "deactivate"
    /\ \E tk \in last.ctx.tokenUsed :
           /\ WellSigned(tk)
           /\ Unexpired(tk)
           /\ tk.role = "super_admin"
           /\ tk.userId \in DOMAIN last.pre
           /\ last.pre[tk.userId].is_active
           /\ last.pre[tk.userId].role = "user"
    /\ ~Ran(last.ctx, "handler")
    /\ users = last.pre

QueryThrew ==
    /\ last.in.fault >= 1
    /\ \/ last.op \in AuthOps
       \/ /\ last.op = "sso-login"
          /\ \/ last.in.fault <= 2
             \/ \A i \in DOMAIN last.pre : last.pre[i].email # last.in.email

\* C23: a request one of whose directory queries throws ends with one 500
\* response carrying a fixed, generic error text, in authenticate, sso-login,
\* GET /users, role change, deactivate and reactivate alike.
C23_DirectoryFailureIs500 ==
    QueryThrew =>
        /\ last.ctx.status = 500
        /\ last.ctx.sent = 1
        /\ last.ctx.error \in {"Authentication failed", "Internal server error",
                               "Failed to create or update user",
                               "Failed to retrieve users",
                               "Failed to update user role",
                               "Failed to deactivate user",
                               "Failed to reactivate user"}

\* The :userId parameter names no identity of the directory.
NamesNoIdentity(userId, us) ==
    ~ParamKey(userId).valid \/ ParamKey(userId).n \notin DOMAIN us

\* C24: a role change sent by an active super_admin with a role outside the
\* three values is answered 400, and with an id that names no identity 404;
\* in both cases the directory is unchanged; every identity's role is one of
\* the three values in every state.
C24_RoleChangeValidation ==
    /\ \A i \in DOMAIN users : users[i].role \in Roles
    /\ ( /\ last.op = "role"
         /\ last.in.fault = 0
         /\ AuthenticatedAs({"super_admin"}) ) =>
           /\ last.in.role \notin Roles
                  => last.ctx.status = 400 /\ users = last.pre
           /\ (last.in.role \in Roles
                   /\ NamesNoIdentity(last.in.userId, last.pre))
                  => last.ctx.status = 404 /\ users = last.pre

\* C25: every persisted email is lowercase, and no two identities have
\* emails that are equal when letter case is ignored: logins whose emails
\* differ only in case resolve to one identity.
C25_LowercaseUniqueEmail ==
    /\ \A i \in DOMAIN users : users[i].email = ToLowerCase(users[i].email)
    /\ \A i, j \in DOMAIN users :
           ToLowerCase(users[i].email) = ToLowerCase(users[j].email) => i = j

\* The order of the roles: user < admin < super_admin.
RoleOrder == <<"user", "admin", "super_admin">>

Rank(role) == CHOOSE k \in 1..3 : RoleOrder[k] = role

\* C26: ProtectedRoute renders the loading placeholder while loading;
\* otherwise its children iff user and token are both present and the user's
\* role is at least requiredRole (user when none is given) in the order
\* user < admin < super_admin, and the fallback in every other case.
C26_ProtectedRoute ==
    last.op = "ProtectedRoute" =>
        LET required == IF last.in.requiredRole = {} THEN {"user"}
                        ELSE last.in.requiredRole
            allowed == /\ last.in.user # {}
                       /\ last.in.token \notin {{}, {""}}
                       /\ \A u \in last.in.user, r \in required :
                              Rank(u.role) >= Rank(r)
        IN last.result = (IF last.in.isLoading THEN "loading"
                          ELSE IF allowed THEN "children"
                          ELSE "fallback")

C26_Witness ==
    /\ last.op = "ProtectedRoute"
    /\ ~last.in.isLoading
    /\ last.in.token = {"t"}
    /\ last.in.requiredRole = {"admin"}
    /\ \E u \in last.in.user : u.role = "admin"
    /\ last.result = "children"

\* C27: within one window, a request of a client to POST /sso-login that
\* comes after maxRequests requests of the same client to the auth endpoints
\* is answered 429 and does not reach the handler.
C27_LimiterGuardsRoutes ==
    ( /\ last.op = "router"
      /\ last.in.path = "sso-login"
      /\ Arrived(Identifier(last.in.ip)) > MaxRequests ) =>
        /\ last.ctx.status = 429
        /\ ~Ran(last.ctx, "handler")

\* A finished role-change request that arrived with the valid token of an
\* active super_admin when the directory held exactly two super_admins, and
\* aimed at one of them.
DemotionOfTwo(p) ==
    /\ p \in DOMAIN pending
    /\ pending[p].op = "role"
    /\ pending[p].pc = "done"
    /\ pending[p].role = "user"
    /\ Cardinality(SuperAdmins(pending[p].pre)) = 2
    /\ \E i \in SuperAdmins(pending[p].pre) : pending[p].userId = IdToString(i)
    /\ \E tk \in pending[p].ctx.tokenUsed :
           /\ WellSigned(tk)
           /\ Unexpired(tk)
           /\ tk.userId \in SuperAdmins(pending[p].pre)
           /\ pending[p].pre[tk.userId].is_active

AdmittedOf(id) ==
    {p \in DOMAIN pending :
        /\ pending[p].op = "limited"
        /\ Identifier(pending[p].ip) = id
        /\ Continued(pending[p].ctx, "rateLimit")}

\* C29: under any interleaving of concurrent requests of one client within
\* one window the limiter admits at most maxRequests of them, and the
\* counter of the client equals the number admitted: no request's read,
\* comparison and increment is separated by a step of another request.
C29_NoOverAdmission ==
    \A ip \in Ips :
        LET id == Identifier(ip)
        IN /\ Cardinality(AdmittedOf(id)) <= MaxRequests
           /\ Cardinality(AdmittedOf(id)) =
                  (IF id \in DOMAIN requests THEN requests[id].count ELSE 0)

\* maxRequests requests of one client admitted and still in their handlers
\* when a further request of the client is answered 429.
C29_Witness ==
    \E ip \in Ips :
        /\ Cardinality({p \in AdmittedOf(Identifier(ip)) :
                            pending[p].pc = "handler"}) = MaxRequests
        /\ \E p \in DOMAIN pending :
               /\ pending[p].ip = ip
               /\ pending[p].ctx.status = 429

\* The two logins of distinct new emails that arrived on an empty directory
\* and were both answered.
BothCreated(p, q) ==
    /\ p \in DOMAIN pending /\ q \in DOMAIN pending /\ p # q
    /\ pending[p].op = "sso-login" /\ pending[q].op = "sso-login"
    /\ pending[p].pc = "done" /\ pending[q].pc = "done"
    /\ pending[p].pre = <<>> /\ pending[q].pre = <<>>
    /\ pending[p].email # pending[q].email
    /\ pending[p].ctx.status = 200 /\ pending[q].ctx.status = 200

CreatedRole(p) ==
    {users[i].role : i \in {j \in DOMAIN users : users[j].email = pending[p].email}}

\* C30: when two sso-logins for two different new emails run concurrently on
\* an empty directory, exactly one of the two created identities has role
\* super_admin and the other has role user.
C30_OneSuperAdmin ==
    \A p \in Procs, q \in Procs :
        BothCreated(p, q) =>
            \/ CreatedRole(p) = {"super_admin"} /\ CreatedRole(q) = {"user"}
            \/ CreatedRole(p) = {"user"} /\ CreatedRole(q) = {"super_admin"}

\* Two logins for one email that both arrived while the directory had no
\* identity for it (both lookups found nothing) and were both answered.
SameNewEmail(p, q) ==
    /\ p \in DOMAIN pending /\ q \in DOMAIN pending /\ p # q
    /\ pending[p].op = "sso-login" /\ pending[q].op = "sso-login"
    /\ pending[p].pc = "done" /\ pending[q].pc = "done"
    /\ pending[p].email = pending[q].email
    /\ pending[p].email # <<>> /\ pending[p].name # "" /\ pending[q].name # ""
    /\ \A i \in DOMAIN pending[p].pre : pending[p].pre[i].email # pending[p].email
    /\ \A i \in DOMAIN pending[q].pre : pending[q].pre[i].email # pending[q].email

\* C31: when two sso-logins for the same new email run concurrently,
\* interleaved between the lookup and the insert, the directory ends with
\* exactly one identity for the email and both requests are answered 200
\* with a token for that identity.
C31_SameEmailBothTokens ==
    \A p \in Procs, q \in Procs :
        SameNewEmail(p, q) =>
            LET ids == {i \in DOMAIN users : users[i].email = pending[p].email}
            IN /\ Cardinality(ids) = 1
               /\ \A x \in {p, q} :
                      /\ pending[x].ctx.status = 200
                      /\ pending[x].ctx.token # {}
                      /\ \A tk \in pending[x].ctx.token : tk.userId \in ids

\* The last request passed the role gate of its route.
PassedGate ==
    IF last.op \in {"users", "role"}
    THEN Continued(last.ctx, "requireSuperAdmin")
    ELSE Continued(last.ctx, "requireAdmin")

\* The roles the gate of the last request's route lets through.
GateRoles ==
    IF last.op \in {"users", "role"} THEN {"super_admin"}
    ELSE {"admin", "super_admin"}

\* C32: a gated request bearing a valid, unexpired token of an active
\* identity passes the role gate of its route exactly when the role the
\* directory holds for the identity is one the gate lets through, whatever
\* role claim the token carries: a token issued before the role was lowered
\* no longer passes, one issued before it was raised passes.
C32_GateOnDirectoryRole ==
    (last.op \in GatedOps /\ last.in.fault = 0) =>
        \A tk \in last.ctx.tokenUsed :
            ( /\ WellSigned(tk)
              /\ Unexpired(tk)
              /\ tk.userId \in DOMAIN last.pre
              /\ last.pre[tk.userId].is_active )
            => (PassedGate <=> last.pre[tk.userId].role \in GateRoles)

\* The last request went through authenticate (GET /me) or optionalAuth
\* bearing a token whose claims name the identity the process suspends.
BearsTokenOf(p, tk) ==
    /\ last.op \in {"me", "optionalAuth"}
    /\ tk \in last.ctx.tokenUsed
    /\ tk.kind = "jwt"
    /\ tk.userId = pending[p].userId

\* The request passed authenticate, or optionalAuth attached an identity.
PassedOrAttached ==
    IF last.op = "me" THEN Continued(last.ctx, "authenticate")
    ELSE last.ctx.user # {}

\* C33: between a successful deactivate(id) and the successful reactivate(id)
\* no request bearing a token of the identity passes authenticate or gets
\* the identity attached by optionalAuth, whenever the token was issued;
\* after the reactivation a request bearing a validly signed, unexpired
\* token of the identity passes again.
C33_SuspensionWindow ==
    \A p \in DOMAIN pending :
        pending[p].op = "suspend" =>
            \A tk \in last.ctx.tokenUsed :
                BearsTokenOf(p, tk) =>
                    /\ pending[p].pc = "deactivated" => ~PassedOrAttached
                    /\ ( /\ pending[p].pc = "reactivated"
                         /\ last.in.fault = 0
                         /\ WellSigned(tk)
                         /\ Unexpired(tk)
                         /\ tk.userId \in DOMAIN users )
                       => PassedOrAttached

\* C34: POST /logout is answered 200 and changes no server state (directory,
\* id sequence, limiter), and every request gets from authenticate after the
\* logout the answer it would have got before it: what a token is worth
\* depends on its signature, its expiry and the directory alone.
C34_LogoutChangesNothing ==
    [][(last.op = "idle" /\ last'.op = "logout") =>
           /\ last'.ctx.status = 200
           /\ users' = users
           /\ nextId' = nextId
           /\ requests' = requests
           /\ \A req \in RouteRequests :
                  MeRoute(req, users', now', 0, FALSE)
                      = MeRoute(req, users, now, 0, FALSE)]_vars

\* A logout bearing the validly signed, unexpired token of an active
\* identity that left the directory as it was.
C34_Witness ==
    /\ last.op = "logout"
    /\ \E tk \in ExtractToken(last.ctx.req) :
           /\ WellSigned(tk)
           /\ Unexpired(tk)
           /\ tk.userId \in DOMAIN users
           /\ users[tk.userId].is_active
    /\ users = last.pre

\* The row with the columns a login may write set back to those of old.
SaveLoginColumns(row, old) ==
    [row EXCEPT !.name = old.name, !.last_login = old.last_login]

\* C35: sso-login for an email that already has an identity creates no
\* identity, leaves every other identity as it was, and changes of that
\* identity at most the name and the last-login stamp (id, email, role,
\* provider and active flag stay), whatever provider or role the body has.
C35_ReloginFrame ==
    \A i \in DOMAIN last.pre :
        (last.op = "sso-login" /\ last.pre[i].email = last.in.email) =>
            /\ DOMAIN users = DOMAIN last.pre
            /\ \A j \in DOMAIN users \ {i} : users[j] = last.pre[j]
            /\ SaveLoginColumns(users[i], last.pre[i]) = last.pre[i]

\* A login of a deactivated super_admin created with the default provider,
\* whose body names another provider and a role, that changed the name and
\* the last-login stamp.
C35_Witness ==
    /\ last.op = "sso-login"
    /\ last.ctx.status = 200
    /\ last.in.provider = "google"
    /\ last.in.role = "super_admin"
    /\ \E i \in DOMAIN last.pre :
           /\ last.pre[i].email = last.in.email
           /\ ~last.pre[i].is_active
           /\ last.pre[i].provider = "microsoft"
           /\ users[i].name # last.pre[i].name
           /\ users[i].last_login # last.pre[i].last_login

\* C37: a request the limiter answers 429 leaves the limiter's map as it
\* was, count and reset deadline of the client's window included, and any
\* request leaves the entry of every other client identifier as it was.
C37_RejectedChangesNoWindow ==
    last.op = "rateLimit" =>
        /\ last.ctx.status = 429 => requests = last.limiter
        /\ DOMAIN requests = DOMAIN last.limiter \cup {Identifier(last.in.ip)}
        /\ \A id \in DOMAIN last.limiter \ {Identifier(last.in.ip)} :
               requests[id] = last.limiter[id]

\* A request answered 429 after the clock moved on within its window, while
\* another client has a window of its own.
C37_Witness ==
    /\ last.op = "rateLimit"
    /\ last.ctx.status = 429
    /\ Identifier(last.in.ip) \in DOMAIN requests
    /\ DateNow(now) > requests[Identifier(last.in.ip)].resetTime - WindowMs
    /\ \E id \in DOMAIN requests : id # Identifier(last.in.ip)

\* GET /users is answered 200 to identity i bearing a token issued now.
CanListUsers(i) ==
    ListUsersRoute(BearerRequest(GenerateToken(users[i], now)), users, now,
                   0, FALSE).status = 200

\* C36: once the directory holds an identity (the first one is created
\* super_admin), every state reached by logins, role changes, deactivate
\* and reactivate requests holds an identity that is super_admin and active,
\* and GET /users is open to it.
C36_ActiveSuperAdminRemains ==
    DOMAIN users # {} =>
        \E i \in SuperAdmins(users) :
            /\ users[i].is_active
            /\ CanListUsers(i)

\* C38: once a call of logout() completed, whether its request succeeded or
\* failed, token and user are null and the stored auth_token is removed, in
\* every later state of the page, a /me response that arrives after the
\* logout included.
C38_LogoutClearsSession ==
    (\E p \in DOMAIN pending :
         pending[p].op = "logout" /\ pending[p].pc = "done") =>
        /\ client.token = {}
        /\ client.user = {}
        /\ client.stored = {}

====
